---- MODULE Spec2Model ----
(***************************************************************************)
(* Model of the property-details service (package property): the address   *)
(* validator, and the GetInfo pipeline validate -> geocode -> details ->   *)
(* schools with its three upstream collaborators.                          *)
(*                                                                         *)
(* Text is modelled as a sequence of one-character strings, so that        *)
(* trimming, splitting, regular-expression matching and number parsing are *)
(* computed character by character as the Go code computes them.           *)
(***************************************************************************)
EXTENDS Integers, Sequences, FiniteSets, TLC

VARIABLES
    call,       \* one function called on its own: [fn, arg]
    ret,        \* ... what it returned (NotReturned before it does)
    apiKey,     \* the process environment variable OPENCAGE_API_KEY
    pc,         \* per invocation of GetInfo: where it is
    address,    \* ... its argument
    inflight,   \* ... the upstream calls issued and not yet returned
    callLog,    \* ... the upstream calls issued so far, in order
    sentKey,    \* ... the key parameter of the details request it sent
    respLog,    \* ... per collaborator, the status and body kind received
    coords,     \* ... local coords, once geocodeAddress returned it
    details,    \* ... local details, once getPropertyDetails returned it
    schools,    \* ... local schools, once getNearbySchools returned it
    info,       \* ... the *Info it returned (Nil for nil)
    err         \* ... the error it returned (NoErr for nil)

vvars == <<call, ret>>
gvars == <<apiKey, pc, address, inflight, callLog, sentKey, respLog, coords,
           details, schools, info, err>>
vars == <<vvars, gvars>>

Nil == [nil |-> TRUE]
NoCall == [fn |-> "none", arg |-> Nil]
NotReturned == [returned |-> FALSE]
Returned(v) == [returned |-> TRUE, value |-> v]
NoErr == "noerr"

(***************************************************************************)
(* Characters                                                              *)
(***************************************************************************)
DigitSeq == <<"0", "1", "2", "3", "4", "5", "6", "7", "8", "9">>
UpperSeq == <<"A", "B", "C", "D", "E", "F", "G", "H", "I", "J", "K", "L", "M",
              "N", "O", "P", "Q", "R", "S", "T", "U", "V", "W", "X", "Y", "Z">>
LowerSeq == <<"a", "b", "c", "d", "e", "f", "g", "h", "i", "j", "k", "l", "m",
              "n", "o", "p", "q", "r", "s", "t", "u", "v", "w", "x", "y", "z">>

Range(f) == {f[i] : i \in DOMAIN f}

Digit == Range(DigitSeq)
Upper == Range(UpperSeq)
Lower == Range(LowerSeq)
Letter == Upper \cup Lower

\* regexp/syntax: \d is [0-9], \s is [\t\n\f\r ]
ClassD == Digit
ClassS == {" ", "\t", "\n", "\f", "\r"}

\* unicode.IsSpace on the characters the model uses (strings.TrimSpace)
IsSpace(c) == c \in {" ", "\t", "\n", "\f", "\r"}

(***************************************************************************)
(* strings.TrimSpace, strings.Split                                        *)
(***************************************************************************)
RECURSIVE TrimLeft(_)
TrimLeft(s) ==
    IF s /= <<>> /\ IsSpace(Head(s)) THEN TrimLeft(Tail(s)) ELSE s

RECURSIVE TrimRight(_)
TrimRight(s) ==
    IF s /= <<>> /\ IsSpace(s[Len(s)])
    THEN TrimRight(SubSeq(s, 1, Len(s) - 1))
    ELSE s

TrimSpace(s) == TrimRight(TrimLeft(s))

\* len(strings.Split(s, ",")): one more than the number of separators
SplitCount(s, sep) == Cardinality({i \in DOMAIN s : s[i] = sep}) + 1

(***************************************************************************)
(* Regular-expression matching, anchored at both ends.  A matcher maps the *)
(* set of positions (1 .. Len(s)+1) the match may have reached to the set  *)
(* it may reach after one more element of the pattern.                     *)
(***************************************************************************)
\* x : one character of the class
ReOne(s, class, from) ==
    {i + 1 : i \in {p \in from : p <= Len(s) /\ s[p] \in class}}

\* the positions >= j that x* reaches: j itself when it is a starting position
\* or when j - 1 is reached and holds a character of the class
RECURSIVE StarScan(_, _, _, _, _)
StarScan(s, class, from, j, before) ==
    IF j > Len(s) + 1 THEN {}
    ELSE LET here == j \in from \/ (before /\ s[j - 1] \in class)
         IN  (IF here THEN {j} ELSE {})
                 \cup StarScan(s, class, from, j + 1, here)

\* x* : zero or more
ReStar(s, class, from) == StarScan(s, class, from, 1, FALSE)

\* x+ : one or more
RePlus(s, class, from) == ReOne(s, class, ReStar(s, class, from))

\* x{n} and x{n}? : exactly n (the lazy mark changes preference, not the language)
RECURSIVE ReExactly(_, _, _, _)
ReExactly(s, class, n, from) ==
    IF n = 0 THEN from ELSE ReExactly(s, class, n - 1, ReOne(s, class, from))

StreetClass == Letter \cup Digit \cup ClassS \cup {".", "-"}
CityClass == Letter \cup ClassS

StateLetters == 2
ZipDigits == 5

\* mutant: the pattern without its anchors ^ and $
addressRegexMatchUnanchored(s) ==
    LET p1 == RePlus(s, ClassD, 1 .. (Len(s) + 1))
        p2 == RePlus(s, ClassS, p1)
        p3 == RePlus(s, StreetClass, p2)
        p4 == ReOne(s, {","}, p3)
        p5 == ReStar(s, ClassS, p4)
        p6 == RePlus(s, CityClass, p5)
        p7 == ReOne(s, {","}, p6)
        p8 == ReStar(s, ClassS, p7)
        p9 == ReExactly(s, Upper, StateLetters, p8)
        p10 == ReStar(s, ClassS, p9)
        p11 == ReExactly(s, ClassD, ZipDigits, p10)
    IN  p11 /= {}

\* mutant: the pattern without its closing $
addressRegexMatchNoEnd(s) ==
    LET p1 == RePlus(s, ClassD, {1})
        p2 == RePlus(s, ClassS, p1)
        p3 == RePlus(s, StreetClass, p2)
        p4 == ReOne(s, {","}, p3)
        p5 == ReStar(s, ClassS, p4)
        p6 == RePlus(s, CityClass, p5)
        p7 == ReOne(s, {","}, p6)
        p8 == ReStar(s, ClassS, p7)
        p9 == ReExactly(s, Upper, StateLetters, p8)
        p10 == ReStar(s, ClassS, p9)
        p11 == ReExactly(s, ClassD, ZipDigits, p10)
    IN  p11 /= {}

\* ^\d+\s+[A-Za-z0-9\s.-]+,\s*[A-Za-z\s]+,\s*[A-Z]{2}\s*\d{5}?$
addressRegexMatch(s) ==
    LET p1 == RePlus(s, ClassD, {1})
        p2 == RePlus(s, ClassS, p1)
        p3 == RePlus(s, StreetClass, p2)
        p4 == ReOne(s, {","}, p3)
        p5 == ReStar(s, ClassS, p4)
        p6 == RePlus(s, CityClass, p5)
        p7 == ReOne(s, {","}, p6)
        p8 == ReStar(s, ClassS, p7)
        p9 == ReExactly(s, Upper, StateLetters, p8)
        p10 == ReStar(s, ClassS, p9)
        p11 == ReExactly(s, ClassD, ZipDigits, p10)
    IN  (Len(s) + 1) \in p11

MinParts == 3

ErrEmpty == "address cannot be empty"
ErrParts == "address must include street, city, and state"
ErrFormat == "invalid address format"

ValidateAddress(a) ==
    IF TrimSpace(a) = <<>> THEN ErrEmpty
    ELSE IF SplitCount(a, ",") < MinParts THEN ErrParts
    ELSE IF ~addressRegexMatch(TrimSpace(a)) THEN ErrFormat
    ELSE NoErr

(***************************************************************************)
(* Numbers.  A float64 the model handles is a decimal m / 10^e, kept       *)
(* normalised (no trailing zero digit), so that equal values are equal     *)
(* records.                                                                *)
(***************************************************************************)
RECURSIVE Normalize(_)
Normalize(x) ==
    IF x.e > 0 /\ x.m % 10 = 0
    THEN Normalize([m |-> x.m \div 10, e |-> x.e - 1])
    ELSE x

RECURSIVE Pow10(_)
Pow10(n) == IF n = 0 THEN 1 ELSE 10 * Pow10(n - 1)

IntNum(n) == [m |-> n, e |-> 0]
Zero == IntNum(0)

\* the float64 that is not a number; every comparison with it is false
NaN == [nan |-> TRUE]
IsNaN(x) == x = NaN

NumLE(x, y) == ~IsNaN(x) /\ ~IsNaN(y) /\ x.m * Pow10(y.e) <= y.m * Pow10(x.e)
NumLT(x, y) == ~IsNaN(x) /\ ~IsNaN(y) /\ x.m * Pow10(y.e) < y.m * Pow10(x.e)

DigitVal(c) == CHOOSE i \in 0 .. 9 : DigitSeq[i + 1] = c

RECURSIVE DigitsValue(_, _)
DigitsValue(s, acc) ==
    IF s = <<>> THEN acc
    ELSE DigitsValue(Tail(s), acc * 10 + DigitVal(Head(s)))

AllDigits(s) == \A i \in DOMAIN s : s[i] \in Digit

Signed(s) == s /= <<>> /\ s[1] \in {"+", "-"}
Unsigned(s) == IF Signed(s) THEN Tail(s) ELSE s
SignOf(s) == IF s /= <<>> /\ s[1] = "-" THEN -1 ELSE 1

\* strconv.ParseFloat(s, 64) on the decimal notation [+-]digits[.digits] (the
\* texts the model feeds it hold only digits, signs, points and letters that
\* start no exponent, infinity, NaN or hexadecimal form): the value, or a
\* syntax error together with the value 0.
ParseFloat(s) ==
    LET body == Unsigned(s)
        dots == {i \in DOMAIN body : body[i] = "."}
        dot == IF dots = {} THEN Len(body) + 1 ELSE CHOOSE i \in dots : TRUE
        ip == SubSeq(body, 1, dot - 1)
        fp == SubSeq(body, dot + 1, Len(body))
        ok == /\ Cardinality(dots) <= 1
              /\ AllDigits(ip)
              /\ AllDigits(fp)
              /\ Len(ip) + Len(fp) >= 1
    IN  IF ok
        THEN [ok |-> TRUE,
              val |-> Normalize([m |-> SignOf(s) * DigitsValue(ip \o fp, 0),
                                 e |-> Len(fp)])]
        ELSE [ok |-> FALSE, val |-> Zero]

\* A Go int: IntBits bits in two's complement, kept as LimbCount limbs of
\* LimbBits bits, least significant first, so that no intermediate value
\* exceeds the integers TLC computes with.
IntBits == 64
LimbBits == 16
LimbBase == 65536
LimbCount == IntBits \div LimbBits
SignLimb == LimbBase \div 2

\* x * k + c on limbs: [limbs, carry], carry being what does not fit
RECURSIVE MulAdd(_, _, _, _)
MulAdd(limbs, k, c, done) ==
    IF limbs = <<>> THEN [limbs |-> done, carry |-> c]
    ELSE LET t == Head(limbs) * k + c
         IN  MulAdd(Tail(limbs), k, t \div LimbBase, Append(done, t % LimbBase))

WordZero == [i \in 1 .. LimbCount |-> 0]
WordOf(n) == MulAdd(WordZero, 0, n, <<>>).limbs

\* -x modulo 2^IntBits: the complement of every limb, plus one
Negate(w) == MulAdd([i \in 1 .. LimbCount |-> LimbBase - 1 - w[i]], 1, 1, <<>>).limbs

IsNegative(w) == w[LimbCount] >= SignLimb
IsPositive(w) == ~IsNegative(w) /\ w /= WordZero

\* x * 2 as the machine computes it: modulo 2^IntBits
Double(w) == MulAdd(w, 2, 0, <<>>).limbs

\* the magnitude of a digit string: [limbs, over], over when it reaches 2^IntBits
RECURSIVE Magnitude(_, _, _)
Magnitude(s, limbs, over) ==
    IF s = <<>> THEN [limbs |-> limbs, over |-> over]
    ELSE LET r == MulAdd(limbs, 10, DigitVal(Head(s)), <<>>)
         IN  Magnitude(Tail(s), r.limbs, over \/ r.carry /= 0)

\* strconv.Atoi(s): [+-]digits; a value out of the range of int is an error
Atoi(s) ==
    LET body == Unsigned(s)
        mag == Magnitude(body, WordZero, FALSE)
        minInt == [i \in 1 .. LimbCount |-> IF i = LimbCount THEN SignLimb ELSE 0]
        inRange == /\ ~mag.over
                   /\ \/ mag.limbs[LimbCount] < SignLimb
                      \/ SignOf(s) = -1 /\ mag.limbs = minInt
    IN  IF body /= <<>> /\ AllDigits(body) /\ inRange
        THEN [ok |-> TRUE,
              val |-> IF SignOf(s) = -1 THEN Negate(mag.limbs) ELSE mag.limbs]
        ELSE [ok |-> FALSE, val |-> WordZero]

(***************************************************************************)
(* Upstream responses.  httpClient.Do / Post returns a transport error     *)
(* (connection failure, client timeout) or a response with a status and a  *)
(* body; the body is described by what encoding/json makes of it.          *)
(***************************************************************************)
TransportError == [kind |-> "error"]
HTTP(status, body) == [kind |-> "http", status |-> status, body |-> body]

Garbage == [json |-> "garbage"]         \* not JSON ("invalid json", an error page)
JSONNull == [json |-> "null"]           \* the JSON value null
JSONArray(rs) == [json |-> "array", results |-> rs]
\* a JSON object; typed |-> FALSE when a member has a type the target struct
\* cannot take (the second Unmarshal fails)
JSONObject(typed, rs) == [json |-> "object", typed |-> typed, results |-> rs]

(***************************************************************************)
(* geocodeAddress, from the response of the address-search service         *)
(***************************************************************************)
ErrTransport == "transport error"
ErrDecode == "json decode error"
ErrNotFound == "address not found"
ErrLat == "invalid latitude value"
ErrLon == "invalid longitude value"

NoCoords == Nil

\* mutant: an empty result list yields the zero Coordinates and no error
geocodeAddressEmptyOk(resp) ==
    IF resp.kind = "error" THEN [err |-> ErrTransport, coords |-> NoCoords]
    ELSE IF resp.body.json \in {"garbage", "object"}
         THEN [err |-> ErrDecode, coords |-> NoCoords]
    ELSE LET results == IF resp.body.json = "null" THEN <<>>
                        ELSE resp.body.results
         IN  IF Len(results) = 0
             THEN [err |-> NoErr, coords |-> [Lat |-> Zero, Lon |-> Zero]]
             ELSE LET lat == ParseFloat(results[1].lat)
                      lon == ParseFloat(results[1].lon)
                  IN  IF ~lat.ok THEN [err |-> ErrLat, coords |-> NoCoords]
                      ELSE IF ~lon.ok THEN [err |-> ErrLon, coords |-> NoCoords]
                      ELSE [err |-> NoErr,
                            coords |-> [Lat |-> lat.val, Lon |-> lon.val]]

\* PropertyService.geocodeAddress of the earliest revision of main.go: the
\* errors of strconv.ParseFloat are discarded (lat, _ := ...), so the value
\* ParseFloat returns beside a syntax error, 0, becomes the coordinate
PropertyService_geocodeAddress(resp) ==
    IF resp.kind = "error" THEN [err |-> ErrTransport, coords |-> NoCoords]
    ELSE IF resp.body.json \in {"garbage", "object"}
         THEN [err |-> ErrDecode, coords |-> NoCoords]
    ELSE LET results == IF resp.body.json = "null" THEN <<>>
                        ELSE resp.body.results
         IN  IF Len(results) = 0
             THEN [err |-> ErrNotFound, coords |-> NoCoords]
             ELSE [err |-> NoErr,
                   coords |-> [Lat |-> ParseFloat(results[1].lat).val,
                               Lon |-> ParseFloat(results[1].lon).val]]

geocodeAddress(resp) ==
    IF resp.kind = "error" THEN [err |-> ErrTransport, coords |-> NoCoords]
    ELSE IF resp.body.json \in {"garbage", "object"}
         THEN [err |-> ErrDecode, coords |-> NoCoords]
    ELSE LET results == IF resp.body.json = "null" THEN <<>>
                        ELSE resp.body.results
         IN  IF Len(results) = 0
             THEN [err |-> ErrNotFound, coords |-> NoCoords]
             ELSE LET lat == ParseFloat(results[1].lat)
                      lon == ParseFloat(results[1].lon)
                  IN  IF ~lat.ok THEN [err |-> ErrLat, coords |-> NoCoords]
                      ELSE IF ~lon.ok THEN [err |-> ErrLon, coords |-> NoCoords]
                      ELSE [err |-> NoErr,
                            coords |-> [Lat |-> lat.val, Lon |-> lon.val]]

(***************************************************************************)
(* getPropertyDetails, from the response of the structured-geocoding       *)
(* service.  A tag value is a text: a sequence of pieces, the empty        *)
(* sequence for "".                                                        *)
(***************************************************************************)
ErrFetchDetails == "failed to fetch property details"
ErrDecodeRaw == "failed to decode raw response"
ErrParseStructured == "failed to parse structured response"

DefaultSize == <<"Mock-Data">>
DefaultRooms == 3
DefaultValue == 500000
\* time.Now().Format(time.RFC3339): the model carries no clock
Timestamp == <<"now">>

RECURSIVE Join(_, _)
Join(frags, sep) ==
    IF frags = <<>> THEN <<>>
    ELSE IF Len(frags) = 1 THEN frags[1]
    ELSE frags[1] \o sep \o Join(Tail(frags), sep)

When(cond, frag) == IF cond THEN <<frag>> ELSE <<>>

sizeDetails(components, osm) ==
    (IF components.Type = <<"residential">> \/ components.Category = <<"building">>
     THEN When(components.BuildingUse /= <<>>, components.BuildingUse)
          \o When(components.Type /= <<>>, components.Type)
     ELSE <<>>)
    \o (IF components.BuildingLevels /= <<>>
        THEN <<components.BuildingLevels \o <<" stories">> >>
        ELSE When(osm.BuildingLevels /= <<>>,
                  osm.BuildingLevels \o <<" stories">>))
    \o When(components.Apartments /= <<>>, <<"apartment building">>)

detailsSize(components, osm) ==
    IF Len(sizeDetails(components, osm)) > 0
    THEN Join(sizeDetails(components, osm), <<" ">>)
    ELSE <<"Residential Property">>

detailsRooms(components) ==
    LET levels == Atoi(components.BuildingLevels)
    IN  IF levels.ok /\ IsPositive(levels.val) THEN Double(levels.val)
        ELSE WordOf(DefaultRooms)

\* mutant: a response without results is an error
getPropertyDetailsEmptyFails(resp) ==
    IF resp.kind = "error" THEN [err |-> ErrFetchDetails, details |-> Nil]
    ELSE IF resp.body.json \in {"garbage", "array"}
         THEN [err |-> ErrDecodeRaw, details |-> Nil]
    ELSE IF resp.body.json = "object" /\ ~resp.body.typed
         THEN [err |-> ErrParseStructured, details |-> Nil]
    ELSE LET results == IF resp.body.json = "null" THEN <<>>
                        ELSE resp.body.results
         IN  IF Len(results) = 0 THEN [err |-> "no results", details |-> Nil]
             ELSE
             [err |-> NoErr,
              details |->
                  IF Len(results) > 0
                  THEN [Size |-> detailsSize(results[1].components, results[1].osm),
                        Rooms |-> detailsRooms(results[1].components),
                        Value |-> IntNum(DefaultValue),
                        LastUpdated |-> Timestamp]
                  ELSE [Size |-> DefaultSize,
                        Rooms |-> WordOf(DefaultRooms),
                        Value |-> IntNum(DefaultValue),
                        LastUpdated |-> Timestamp]]

getPropertyDetails(resp) ==
    IF resp.kind = "error" THEN [err |-> ErrFetchDetails, details |-> Nil]
    ELSE IF resp.body.json \in {"garbage", "array"}
         THEN [err |-> ErrDecodeRaw, details |-> Nil]
    ELSE IF resp.body.json = "object" /\ ~resp.body.typed
         THEN [err |-> ErrParseStructured, details |-> Nil]
    ELSE LET results == IF resp.body.json = "null" THEN <<>>
                        ELSE resp.body.results
         IN  [err |-> NoErr,
              details |->
                  IF Len(results) > 0
                  THEN [Size |-> detailsSize(results[1].components, results[1].osm),
                        Rooms |-> detailsRooms(results[1].components),
                        Value |-> IntNum(DefaultValue),
                        LastUpdated |-> Timestamp]
                  ELSE [Size |-> DefaultSize,
                        Rooms |-> WordOf(DefaultRooms),
                        Value |-> IntNum(DefaultValue),
                        LastUpdated |-> Timestamp]]

(***************************************************************************)
(* Helper functions of getNearbySchools                                    *)
(***************************************************************************)
MaxLat == 90
MaxLon == 180

\* mutant: only the point (0, 0) counts as missing
areValidCoordinatesNullIslandOnly(lat, lon) ==
    /\ ~(lat = Zero /\ lon = Zero)
    /\ NumLE(IntNum(-MaxLat), lat) /\ NumLE(lat, IntNum(MaxLat))
    /\ NumLE(IntNum(-MaxLon), lon) /\ NumLE(lon, IntNum(MaxLon))

areValidCoordinates(lat, lon) ==
    /\ lat /= Zero /\ lon /= Zero
    /\ NumLE(IntNum(-MaxLat), lat) /\ NumLE(lat, IntNum(MaxLat))
    /\ NumLE(IntNum(-MaxLon), lon) /\ NumLE(lon, IntNum(MaxLon))

IndexOf(seq, c) == CHOOSE i \in DOMAIN seq : seq[i] = c
ToUpper(c) == IF c \in Lower THEN UpperSeq[IndexOf(LowerSeq, c)] ELSE c
ToLower(c) == IF c \in Upper THEN LowerSeq[IndexOf(UpperSeq, c)] ELSE c

\* strings.ReplaceAll(s, old, new) for one-character old and new
ReplaceAll(s, old, new) == [i \in DOMAIN s |-> IF s[i] = old THEN new ELSE s[i]]

\* cases.Title(language.English).String(s) on letters and spaces: the first
\* letter of every word in upper case, the others in lower case
TitleCase(s) ==
    [i \in DOMAIN s |->
        IF i = 1 \/ s[i - 1] = " " THEN ToUpper(s[i]) ELSE ToLower(s[i])]

Humanize(tag) == TitleCase(ReplaceAll(tag, "_", " "))

\* the tag value "school"
SchoolText == <<"s", "c", "h", "o", "o", "l">>

\* strings.Title(s) on the model's characters: the first letter of every word
\* in upper case, the rest unchanged; letters, digits and "_" make up words
StringsTitle(s) ==
    [i \in DOMAIN s |->
        IF i = 1 \/ s[i - 1] \notin (Letter \cup Digit \cup {"_"})
        THEN ToUpper(s[i]) ELSE s[i]]

\* determineSchoolType of the command-line program (main.go): the school tag
\* is looked at last, and only for being non-empty
main_determineSchoolType(tags) ==
    IF tags.SchoolType /= <<>> THEN StringsTitle(tags.SchoolType)
    ELSE IF tags.SchoolLevel /= <<>> THEN StringsTitle(tags.SchoolLevel)
    ELSE IF tags.SchoolCategory /= <<>> THEN StringsTitle(tags.SchoolCategory)
    ELSE IF tags.Education /= <<>> THEN StringsTitle(tags.Education)
    ELSE IF tags.EducationType /= <<>> THEN StringsTitle(tags.EducationType)
    ELSE IF tags.School /= <<>> THEN StringsTitle(tags.School)
    ELSE <<"U", "n", "k", "n", "o", "w", "n">>

TypeUnknown == <<"U", "n", "k", "n", "o", "w", "n">>
TypeGeneral == <<"G", "e", "n", "e", "r", "a", "l", " ", "S", "c", "h", "o", "o", "l">>

\* mutant: the school-level tag is looked at before the school-type tag
determineSchoolTypeLevelFirst(tags) ==
    IF tags.School /= SchoolText THEN TypeUnknown
    ELSE IF tags.SchoolLevel /= <<>> THEN Humanize(tags.SchoolLevel)
    ELSE IF tags.SchoolType /= <<>> THEN Humanize(tags.SchoolType)
    ELSE IF tags.SchoolCategory /= <<>> THEN Humanize(tags.SchoolCategory)
    ELSE IF tags.Education /= <<>> THEN Humanize(tags.Education)
    ELSE IF tags.EducationType /= <<>> THEN Humanize(tags.EducationType)
    ELSE TypeGeneral

determineSchoolType(tags) ==
    IF tags.School /= SchoolText THEN TypeUnknown
    ELSE IF tags.SchoolType /= <<>> THEN Humanize(tags.SchoolType)
    ELSE IF tags.SchoolLevel /= <<>> THEN Humanize(tags.SchoolLevel)
    ELSE IF tags.SchoolCategory /= <<>> THEN Humanize(tags.SchoolCategory)
    ELSE IF tags.Education /= <<>> THEN Humanize(tags.Education)
    ELSE IF tags.EducationType /= <<>> THEN Humanize(tags.EducationType)
    ELSE TypeGeneral

\* the byte of a character (ASCII)
CharCode(c) ==
    IF c \in Digit THEN 47 + IndexOf(DigitSeq, c)
    ELSE IF c \in Upper THEN 64 + IndexOf(UpperSeq, c)
    ELSE IF c \in Lower THEN 96 + IndexOf(LowerSeq, c)
    ELSE CASE c = " " -> 32
           [] c = "-" -> 45
           [] c = "." -> 46
           [] c = "_" -> 95

HashMultiplier == 31
RatingSteps == 20
RatingBase == 30                \* 3.0, in tenths
\* hash is a uint32: its arithmetic is modulo 2^32.  The model keeps it as
\* two 16-bit halves, hi * 2^16 + lo, so that no intermediate value exceeds
\* the integers TLC computes with.
HalfWord == 65536

\* a Go string is the UTF-8 encoding of its characters and name[i] is its
\* i-th byte: one byte for an ASCII character, two for "é" (U+00E9)
UTF8(c) == IF c = "é" THEN <<195, 169>> ELSE <<CharCode(c)>>

RECURSIVE Bytes(_)
Bytes(s) == IF s = <<>> THEN <<>> ELSE UTF8(Head(s)) \o Bytes(Tail(s))

\* the loop over the bytes of name
RECURSIVE nameHash(_, _)
nameHash(name, hash) ==
    IF name = <<>> THEN hash
    ELSE LET low == hash.lo * HashMultiplier + Head(name)
             high == hash.hi * HashMultiplier + (low \div HalfWord)
         IN  nameHash(Tail(name),
                      [hi |-> high % HalfWord, lo |-> low % HalfWord])

\* (hi * 2^16 + lo) % n
HashMod(hash, n) == ((hash.hi % n) * (HalfWord % n) + (hash.lo % n)) % n

\* mutant: hash % 40 in place of hash % 20
mockSchoolRatingFortySteps(name) ==
    Normalize([m |-> RatingBase
                       + HashMod(nameHash(Bytes(name), [hi |-> 0, lo |-> 0]), 2 * RatingSteps),
               e |-> 1])

\* mutant: hash % 21, which lets the rating reach 5.0
mockSchoolRatingUpToFive(name) ==
    Normalize([m |-> RatingBase
                       + HashMod(nameHash(Bytes(name), [hi |-> 0, lo |-> 0]), RatingSteps + 1),
               e |-> 1])

mockSchoolRating(name) ==
    Normalize([m |-> RatingBase
                       + HashMod(nameHash(Bytes(name), [hi |-> 0, lo |-> 0]), RatingSteps),
               e |-> 1])

determineSchoolRating(tags) == mockSchoolRating(tags.Name)

Tenths(n) == Normalize([m |-> n, e |-> 1])

\* calculateDistance evaluated in IEEE double arithmetic (no fused
\* multiply-add) at the points the model uses: <<lat1, lon1, lat2, lon2>> in
\* tenths of a degree, and the result math.Round(distance*100), i.e. in
\* hundredths of a kilometre.
HaversineTable ==
    { <<377, -1224, 377, -1224, 0>>,
      <<377, -1224, 378, -1224, 1112>>,
      <<377, -1224, 377, -1225, 880>>,
      <<377, -1224, -900, 1800, 1419959>>,
      <<377, -1224, -25, 900, 1489509>>,
      <<377, 0, 377, -1224, 976208>>,
      <<377, 0, 378, -1224, 975381>>,
      <<377, 0, 377, -1225, 976796>>,
      <<377, 0, -900, 1800, 1419959>>,
      <<0, -1224, 377, -1224, 419205>>,
      <<0, -1224, 378, -1224, 420317>>,
      <<0, -1224, 377, -1225, 419206>>,
      <<0, -1224, -900, 1800, 1000754>>,
      <<0, 0, 377, -1224, 1279684>>,
      <<0, 0, 378, -1224, 1279282>>,
      <<0, 0, 377, -1225, 1280504>>,
      <<0, 0, -900, 1800, 1000754>>,
      <<25, -900, 377, -1224, 511999>>,
      <<25, -900, 378, -1224, 512743>>,
      <<25, -900, 377, -1225, 512654>>,
      <<25, -900, -900, 1800, 1028553>> }

\* ... and the pairs at which a, the sum of the two squared-sine terms, comes
\* out above 1 (1.0000000000000002 for these antipodal points), so that
\* math.Sqrt(1-a) and with it the distance are NaN
HaversineNaN == { <<25, -900, -25, 900>> }

\* ... and at a point and itself, for the points of this grid (in tenths of
\* a degree): lat1Rad and lat2Rad are the same double, dLat and dLon are 0,
\* a is 0, math.Atan2(0, 1) is 0, and the distance comes out as exactly 0
SameLats == {-900, -377, -25, 0, 25, 377, 378, 900}
SameLons == {-1800, -1225, -1224, -900, 0, 900, 1800}
HaversineSame == {<<la, lo, la, lo, 0>> : la \in SameLats, lo \in SameLons}

\* mutant: the arguments of math.Atan2 are exchanged, which turns the distance
\* d into 6371 * pi - d = 20015.09 - d
calculateDistanceAtan2Swapped(lat1, lon1, lat2, lon2) ==
    IF \E r \in HaversineNaN :
           /\ Tenths(r[1]) = lat1 /\ Tenths(r[2]) = lon1
           /\ Tenths(r[3]) = lat2 /\ Tenths(r[4]) = lon2
    THEN NaN
    ELSE LET row == CHOOSE r \in HaversineTable \cup HaversineSame :
                       /\ Tenths(r[1]) = lat1 /\ Tenths(r[2]) = lon1
                       /\ Tenths(r[3]) = lat2 /\ Tenths(r[4]) = lon2
         IN  Normalize([m |-> 2001509 - row[5], e |-> 2])

calculateDistance(lat1, lon1, lat2, lon2) ==
    IF \E r \in HaversineNaN :
           /\ Tenths(r[1]) = lat1 /\ Tenths(r[2]) = lon1
           /\ Tenths(r[3]) = lat2 /\ Tenths(r[4]) = lon2
    THEN NaN
    ELSE LET row == CHOOSE r \in HaversineTable \cup HaversineSame :
                       /\ Tenths(r[1]) = lat1 /\ Tenths(r[2]) = lon1
                       /\ Tenths(r[3]) = lat2 /\ Tenths(r[4]) = lon2
         IN  Normalize([m |-> row[5], e |-> 2])

(***************************************************************************)
(* getNearbySchools, from coords and the response of the spatial-query     *)
(* service                                                                 *)
(***************************************************************************)
ErrFetchSchools == "failed to fetch schools"

\* a []School that is not nil (Nil is the nil slice)
Slice(elems) == [elems |-> elems]

\* mutant: the center is used whenever there is one, the direct lat/lon
\* otherwise, whatever the type
schoolPointCenterFirst(element) ==
    IF element.center /= Nil THEN element.center
    ELSE [lat |-> element.lat, lon |-> element.lon]

\* the representative coordinate of an element, Nil when it has none
schoolPoint(element) ==
    IF element.type = "node" THEN [lat |-> element.lat, lon |-> element.lon]
    ELSE IF element.center /= Nil THEN element.center
    ELSE Nil

\* mutant: only the elements of type node are kept
keepsElementNodesOnly(element) ==
    /\ element.tags.Name /= <<>>
    /\ element.type = "node"
    /\ areValidCoordinates(element.lat, element.lon)

\* mutant: the name is not looked at
keepsElementNamelessToo(element) ==
    /\ schoolPoint(element) /= Nil
    /\ areValidCoordinates(schoolPoint(element).lat, schoolPoint(element).lon)

\* whether the loop appends a school for the element
keepsElement(element) ==
    /\ element.tags.Name /= <<>>
    /\ schoolPoint(element) /= Nil
    /\ areValidCoordinates(schoolPoint(element).lat, schoolPoint(element).lon)

schoolOf(c, element) ==
    [Name |-> element.tags.Name,
     Distance |-> calculateDistance(c.Lat, c.Lon, schoolPoint(element).lat,
                                    schoolPoint(element).lon),
     Rating |-> determineSchoolRating(element.tags),
     Type |-> determineSchoolType(element.tags)]

\* mutant: the schools are kept sorted by distance, nearest first
RECURSIVE InsertByDistance(_, _)
InsertByDistance(x, sorted) ==
    IF sorted = <<>> THEN <<x>>
    ELSE IF NumLT(x.Distance, Head(sorted).Distance) THEN <<x>> \o sorted
    ELSE <<Head(sorted)>> \o InsertByDistance(x, Tail(sorted))

RECURSIVE schoolsLoopNearestFirst(_, _)
schoolsLoopNearestFirst(c, elements) ==
    IF elements = <<>> THEN <<>>
    ELSE IF keepsElement(elements[Len(elements)])
         THEN InsertByDistance(schoolOf(c, elements[Len(elements)]),
                               schoolsLoopNearestFirst(c, SubSeq(elements, 1, Len(elements) - 1)))
         ELSE schoolsLoopNearestFirst(c, SubSeq(elements, 1, Len(elements) - 1))

RECURSIVE schoolsLoop(_, _)
schoolsLoop(c, elements) ==
    IF elements = <<>> THEN <<>>
    ELSE (IF keepsElement(Head(elements))
          THEN <<schoolOf(c, Head(elements))>>
          ELSE <<>>)
         \o schoolsLoop(c, Tail(elements))

getNearbySchools(c, resp) ==
    IF resp.kind = "error" THEN [err |-> ErrFetchSchools, schools |-> Nil]
    ELSE IF resp.body.json \in {"garbage", "array"}
         THEN [err |-> ErrDecodeRaw, schools |-> Nil]
    ELSE IF resp.body.json = "object" /\ ~resp.body.typed
         THEN [err |-> ErrParseStructured, schools |-> Nil]
    ELSE [err |-> NoErr,
          schools |-> Slice(schoolsLoop(c, IF resp.body.json = "null" THEN <<>>
                                           ELSE resp.body.results))]

(***************************************************************************)
(* GetInfo: the four stages in the order of the code.  After a stage       *)
(* returned error e, GetInfo either returns or goes on to the next stage.  *)
(***************************************************************************)
Collaborators == {"geocode", "details", "schools"}

\* mutant: the error of ValidateAddress is dropped
nextStageUnvalidated(stage, e) ==
    IF e /= NoErr /\ stage /= "validate" THEN "return"
    ELSE CASE stage = "validate" -> "geocode"
           [] stage = "geocode" -> "details"
           [] stage = "details" -> "schools"
           [] stage = "schools" -> "return"

\* mutant: the error of getPropertyDetails is dropped
nextStageKeepsGoing(stage, e) ==
    IF e /= NoErr /\ stage /= "details" THEN "return"
    ELSE CASE stage = "validate" -> "geocode"
           [] stage = "geocode" -> "details"
           [] stage = "details" -> "schools"
           [] stage = "schools" -> "return"

\* mutant: getPropertyDetails(address) is called before geocodeAddress
nextStageDetailsFirst(stage, e) ==
    IF e /= NoErr THEN "return"
    ELSE CASE stage = "validate" -> "details"
           [] stage = "details" -> "geocode"
           [] stage = "geocode" -> "schools"
           [] stage = "schools" -> "return"

\* mutant: a failed upstream call is issued again
nextStageRetry(stage, e) ==
    IF e /= NoErr THEN (IF stage = "validate" THEN "return" ELSE stage)
    ELSE CASE stage = "validate" -> "geocode"
           [] stage = "geocode" -> "details"
           [] stage = "details" -> "schools"
           [] stage = "schools" -> "return"

\* mutant: after the schools were fetched the details are fetched once more
nextStageRefreshes(stage, e) ==
    IF e /= NoErr THEN "return"
    ELSE CASE stage = "validate" -> "geocode"
           [] stage = "geocode" -> "details"
           [] stage = "details" -> "schools"
           [] stage = "schools" -> "details"

nextStage(stage, e) ==
    IF e /= NoErr THEN "return"
    ELSE CASE stage = "validate" -> "geocode"
           [] stage = "geocode" -> "details"
           [] stage = "details" -> "schools"
           [] stage = "schools" -> "return"

\* fmt.Errorf("<stage message>: %w", err)
WrapPrefix(stage) ==
    CASE stage = "validate" -> "address validation failed"
      [] stage = "geocode" -> "geocoding failed"
      [] stage = "details" -> "failed to get property details"
      [] stage = "schools" -> "failed to get nearby schools"

Wrap(stage, e) == [stage |-> stage, prefix |-> WrapPrefix(stage), cause |-> e]
NoError == [stage |-> "none", prefix |-> "", cause |-> NoErr]

NoResp == [kind |-> "none", status |-> 0, json |-> "none", n |-> 0]

\* what the model remembers of a response
summary(resp) ==
    IF resp.kind = "error"
    THEN [kind |-> "error", status |-> 0, json |-> "none", n |-> 0]
    ELSE [kind |-> "http", status |-> resp.status, json |-> resp.body.json,
          n |-> IF resp.body.json \in {"array", "object"}
                THEN Len(resp.body.results) ELSE 0]

(***************************************************************************)
(* Inputs of the GetInfo pipeline                                          *)
(***************************************************************************)
Reqs == {"r1"}

\* "12 Main St, Reno, NV 89501"
AddrValid == <<"1", "2", " ", "M", "a", "i", "n", " ", "S", "t", ",", " ", "R", "e", "n", "o", ",", " ", "N", "V", " ", "8", "9", "5", "0", "1">>
\* the same with a leading and a trailing space
AddrPadded == <<" ">> \o AddrValid \o <<" ">>
\* "12 Main St, Reno, NV"
AddrNoZip == <<"1", "2", " ", "M", "a", "i", "n", " ", "S", "t", ",", " ", "R", "e", "n", "o", ",", " ", "N", "V">>
AddrEmpty == <<>>
AddrBlank == <<" ", " ">>
\* "12 Main St"
AddrOnePart == <<"1", "2", " ", "M", "a", "i", "n", " ", "S", "t">>
\* "12 Main St. #4B, Reno, NV 89501"
AddrSpecial == <<"1", "2", " ", "M", "a", "i", "n", " ", "S", "t", ".", " ", "#", "4", "B", ",", " ", "R", "e", "n", "o", ",", " ", "N", "V", " ", "8", "9", "5", "0", "1">>

Addresses ==
    {AddrValid, AddrPadded, AddrNoZip, AddrEmpty, AddrBlank, AddrOnePart,
     AddrSpecial}

Keys == {"", "test-key"}

LatTexts == {<<"3", "7", ".", "7">>, <<"0">>, <<"x">>}
LonTexts == {<<"-", "1", "2", "2", ".", "4">>, <<"0", ".", "0">>, <<>>}

Matches == {[lat |-> la, lon |-> lo] : la \in LatTexts, lo \in LonTexts}
OtherMatch == [lat |-> <<"1">>, lon |-> <<"2">>]

\* limit=1 is asked for; the service is still free to answer with more
MatchLists ==
    {<<>>} \cup {<<m>> : m \in Matches} \cup {<<m, OtherMatch>> : m \in Matches}

GeocodeStatuses == {200, 500}
GeocodeBodies ==
    {Garbage, JSONNull, JSONObject(TRUE, <<>>)}
        \cup {JSONArray(ms) : ms \in MatchLists}
GeocodeResponses ==
    {TransportError} \cup {HTTP(st, b) : st \in GeocodeStatuses, b \in GeocodeBodies}

Components(type, category, use, levels, apartments) ==
    [Type |-> type, Category |-> category, BuildingUse |-> use,
     BuildingLevels |-> levels, Apartments |-> apartments]
OSM(levels, type) == [BuildingLevels |-> levels, BuildingType |-> type]
Result(components, osm) == [components |-> components, osm |-> osm]

ResultHouse ==
    Result(Components(<<"residential">>, <<>>, <<"house">>, <<"2">>, <<"yes">>),
           OSM(<<>>, <<"residential">>))
ResultBare == Result(Components(<<>>, <<>>, <<>>, <<>>, <<>>), OSM(<<>>, <<>>))
ResultAnnotated ==
    Result(Components(<<"road">>, <<>>, <<>>, <<>>, <<>>), OSM(<<"4">>, <<>>))

PipeResultLists ==
    {<<>>, <<ResultHouse>>, <<ResultBare>>, <<ResultAnnotated, ResultHouse>>}

DetailsStatuses == {200, 401}
PipeDetailsBodies ==
    {Garbage, JSONNull, JSONArray(<<>>), JSONObject(FALSE, <<>>)}
        \cup {JSONObject(TRUE, rs) : rs \in PipeResultLists}
PipeDetailsResponses ==
    {TransportError}
        \cup {HTTP(st, b) : st \in DetailsStatuses, b \in PipeDetailsBodies}

Tags(name, school, schoolType, level, category, education, educationType) ==
    [Name |-> name, School |-> school, SchoolType |-> schoolType,
     SchoolLevel |-> level, SchoolCategory |-> category,
     Education |-> education, EducationType |-> educationType]
Element(type, tags, lat, lon, center) ==
    [type |-> type, tags |-> tags, lat |-> lat, lon |-> lon, center |-> center]
Point(lat, lon) == [lat |-> lat, lon |-> lon]

ElemNode ==
    Element("node",
            Tags(<<"A", "b">>, SchoolText, <<"h", "i", "g", "h", "_", "s", "c", "h", "o", "o", "l">>, <<>>, <<>>,
                 <<>>, <<>>),
            Tenths(378), Tenths(-1224), Nil)
ElemWay ==
    Element("way", Tags(<<"B">>, SchoolText, <<>>, <<>>, <<>>, <<>>, <<>>),
            Zero, Zero, Point(Tenths(377), Tenths(-1225)))
ElemNoName ==
    Element("node", Tags(<<>>, SchoolText, <<>>, <<>>, <<>>, <<>>, <<>>),
            Tenths(377), Tenths(-1224), Nil)
ElemNoCenter ==
    Element("way", Tags(<<"C">>, SchoolText, <<>>, <<>>, <<>>, <<>>, <<>>),
            Tenths(377), Tenths(-1224), Nil)
ElemZeroLat ==
    Element("node", Tags(<<"D">>, SchoolText, <<>>, <<>>, <<>>, <<>>, <<>>),
            Zero, Tenths(-1224), Nil)

PipeElementLists ==
    {<<>>, <<ElemNode>>, <<ElemNode, ElemWay>>, <<ElemWay, ElemNode>>,
     <<ElemNoName, ElemNoCenter, ElemZeroLat>>}

SchoolsStatuses == {200, 500}
PipeSchoolsBodies ==
    {Garbage, JSONNull, JSONArray(<<>>), JSONObject(FALSE, <<>>)}
        \cup {JSONObject(TRUE, es) : es \in PipeElementLists}
PipeSchoolsResponses ==
    {TransportError}
        \cup {HTTP(st, b) : st \in SchoolsStatuses, b \in PipeSchoolsBodies}

(***************************************************************************)
(* The state machine                                                       *)
(***************************************************************************)
Init ==
    /\ call = NoCall
    /\ ret = NotReturned
    /\ apiKey \in Keys
    /\ pc = [r \in Reqs |-> "idle"]
    /\ address = [r \in Reqs |-> <<>>]
    /\ inflight = [r \in Reqs |-> {}]
    /\ callLog = [r \in Reqs |-> <<>>]
    /\ sentKey = [r \in Reqs |-> ""]
    /\ respLog = [r \in Reqs |-> [c \in Collaborators |-> NoResp]]
    /\ coords = [r \in Reqs |-> Nil]
    /\ details = [r \in Reqs |-> Nil]
    /\ schools = [r \in Reqs |-> Nil]
    /\ info = [r \in Reqs |-> Nil]
    /\ err = [r \in Reqs |-> NoError]

\* os.Setenv / os.Unsetenv("OPENCAGE_API_KEY") by the process
Setenv(k) ==
    /\ k /= apiKey
    /\ apiKey' = k
    /\ UNCHANGED <<vvars, pc, address, inflight, callLog, sentKey, respLog,
                   coords, details, schools, info, err>>

\* GetInfo(a) is called: ValidateAddress, then the geocode call is issued
GetInfoCall(r, a) ==
    /\ pc[r] = "idle"
    /\ LET e == ValidateAddress(a)
           to == nextStage("validate", e)
       IN  /\ address' = [address EXCEPT ![r] = a]
           /\ sentKey' = [sentKey EXCEPT ![r] = IF to = "details" THEN apiKey ELSE @]
           /\ IF to = "return"
              THEN /\ pc' = [pc EXCEPT ![r] = "done"]
                   /\ err' = [err EXCEPT ![r] = Wrap("validate", e)]
                   /\ UNCHANGED <<inflight, callLog>>
              ELSE /\ pc' = [pc EXCEPT ![r] = to]
                   /\ err' = [err EXCEPT ![r] = NoError]
                   /\ inflight' = [inflight EXCEPT ![r] = @ \cup {to}]
                   /\ callLog' = [callLog EXCEPT ![r] = Append(@, to)]
    /\ UNCHANGED <<vvars, apiKey, respLog, coords, details, schools, info>>

\* what every return of an upstream call does to the control state
Proceed(r, stage, resp, e) ==
    LET to == nextStage(stage, e)
    IN  /\ respLog' = [respLog EXCEPT ![r][stage] = summary(resp)]
        /\ IF to = "return"
           THEN /\ pc' = [pc EXCEPT ![r] = "done"]
                /\ err' = [err EXCEPT ![r] =
                              IF e /= NoErr THEN Wrap(stage, e) ELSE NoError]
                /\ inflight' = [inflight EXCEPT ![r] = @ \ {stage}]
                /\ UNCHANGED <<callLog, sentKey>>
           ELSE /\ pc' = [pc EXCEPT ![r] = to]
                /\ err' = [err EXCEPT ![r] = NoError]
                /\ inflight' = [inflight EXCEPT ![r] = (@ \ {stage}) \cup {to}]
                /\ callLog' = [callLog EXCEPT ![r] = Append(@, to)]
                /\ sentKey' = [sentKey EXCEPT ![r] =
                                  IF to = "details" THEN apiKey ELSE @]

\* mutant: the Info carries the trimmed address
newInfoTrimmed(a, c, d, s) ==
    [Address |-> TrimSpace(a), Coordinates |-> c, Details |-> d, Schools |-> s]

\* &Info{Address: address, Coordinates: *coords, Details: *details, Schools: schools}
newInfo(a, c, d, s) ==
    [Address |-> a, Coordinates |-> c, Details |-> d, Schools |-> s]

\* mutant: the coordinates are kept in a field of the Service, which every
\* invocation reads
GeocodeReturnServiceField(r, resp) ==
    /\ pc[r] = "geocode"
    /\ "geocode" \in inflight[r]
    /\ LET g == geocodeAddress(resp)
       IN  /\ Proceed(r, "geocode", resp, g.err)
           /\ coords' = [q \in DOMAIN coords |-> g.coords]
    /\ UNCHANGED <<vvars, apiKey, address, details, schools, info>>

\* the address-search call returns; geocodeAddress finishes
GeocodeReturn(r, resp) ==
    /\ pc[r] = "geocode"
    /\ "geocode" \in inflight[r]
    /\ LET g == geocodeAddress(resp)
       IN  /\ Proceed(r, "geocode", resp, g.err)
           /\ coords' = [coords EXCEPT ![r] = g.coords]
    /\ UNCHANGED <<vvars, apiKey, address, details, schools, info>>

\* the structured-geocoding call returns; getPropertyDetails finishes
DetailsReturn(r, resp) ==
    /\ pc[r] = "details"
    /\ "details" \in inflight[r]
    /\ LET d == getPropertyDetails(resp)
       IN  /\ Proceed(r, "details", resp, d.err)
           /\ details' = [details EXCEPT ![r] = d.details]
    /\ UNCHANGED <<vvars, apiKey, address, coords, schools, info>>

\* the spatial-query call returns; getNearbySchools finishes and GetInfo returns
SchoolsReturn(r, resp) ==
    /\ pc[r] = "schools"
    /\ "schools" \in inflight[r]
    /\ LET s == getNearbySchools(coords[r], resp)
       IN  /\ Proceed(r, "schools", resp, s.err)
           /\ schools' = [schools EXCEPT ![r] = s.schools]
           /\ info' = [info EXCEPT ![r] =
                          IF nextStage("schools", s.err) = "return" /\ s.err = NoErr
                          THEN newInfo(address[r], coords[r], details[r], s.schools)
                          ELSE Nil]
    /\ UNCHANGED <<vvars, apiKey, address, coords, details>>

Next ==
    \/ \E k \in Keys : Setenv(k)
    \/ \E r \in Reqs, a \in Addresses : GetInfoCall(r, a)
    \/ \E r \in Reqs, resp \in GeocodeResponses : GeocodeReturn(r, resp)
    \/ \E r \in Reqs, resp \in PipeDetailsResponses : DetailsReturn(r, resp)
    \/ \E r \in Reqs, resp \in PipeSchoolsResponses : SchoolsReturn(r, resp)

Spec == Init /\ [][Next]_vars

(***************************************************************************)
(* ValidateAddress on its own, over addresses put together from pieces:    *)
(* [space] number [space] street [,] city [,] state [space] zip [tail].    *)
(***************************************************************************)
MaxHouseDigits == 2
MaxZipDigits == 6

\* "1", "12", "123", ... : n digits
Digits(n) == [i \in 1 .. n |-> DigitSeq[(i % 10) + 1]]

PadPieces == {<<>>, <<" ">>}
NumberPieces == {Digits(n) : n \in 0 .. MaxHouseDigits}
StreetPieces == {<<"E", "l", "m">>, <<"4", " ", "S", "t", ".">>, <<"E", "#">>}
CityPieces == {<<"R", "e", "n", "o">>, <<"E", "l", " ", "P", "a", "s", "o">>, <<"R", "3", "n", "o">>}
StatePieces == {<<"N", "V">>, <<"N", "v">>, <<"N", "V", "X">>}
ZipPieces == {Digits(n) : n \in 0 .. MaxZipDigits} \cup {<<"8", "9", "5", "0", "x">>}
TailPieces == {<<>>, <<" ">>, <<",", " ", "U", "S">>}

PiecedAddresses ==
    {lead \o num \o gap \o street \o c1 \o city \o c2 \o state \o zgap \o zip \o tail :
        lead \in PadPieces, num \in NumberPieces, gap \in PadPieces,
        street \in StreetPieces, c1 \in {<<",", " ">>, <<>>}, city \in CityPieces,
        c2 \in {<<",", " ">>, <<",">>}, state \in StatePieces, zgap \in PadPieces,
        zip \in ZipPieces, tail \in TailPieces}

\* "123,,IL" and "1 A, ,NV 12345"
OddAddresses == {<<"1", "2", "3", ",", ",", "I", "L">>, <<"1", " ", "A", ",", " ", ",", "N", "V", " ", "1", "2", "3", "4", "5">>, <<",", ",">>, <<"1", " ", "A", ",", "B", ",", "N", "V", "\t", "1", "2", "3", "4", "5", "\n">>}

TestAddresses == PiecedAddresses \cup Addresses \cup OddAddresses

\* the pipeline at rest, while one function is exercised on its own
PipelineIdle ==
    /\ apiKey = ""
    /\ pc = [r \in Reqs |-> "idle"]
    /\ address = [r \in Reqs |-> <<>>]
    /\ inflight = [r \in Reqs |-> {}]
    /\ callLog = [r \in Reqs |-> <<>>]
    /\ sentKey = [r \in Reqs |-> ""]
    /\ respLog = [r \in Reqs |-> [c \in Collaborators |-> NoResp]]
    /\ coords = [r \in Reqs |-> Nil]
    /\ details = [r \in Reqs |-> Nil]
    /\ schools = [r \in Reqs |-> Nil]
    /\ info = [r \in Reqs |-> Nil]
    /\ err = [r \in Reqs |-> NoError]

InitValidate ==
    /\ call \in {[fn |-> "ValidateAddress", arg |-> a] : a \in TestAddresses}
    /\ ret = NotReturned
    /\ PipelineIdle

\* service.ValidateAddress(call.arg) is called and returns
ValidateCall ==
    /\ call.fn = "ValidateAddress"
    /\ ret = NotReturned
    /\ ret' = Returned(ValidateAddress(call.arg))
    /\ UNCHANGED <<call, gvars>>

NextValidate == ValidateCall

SpecValidate == InitValidate /\ [][NextValidate]_vars

(***************************************************************************)
(* geocodeAddress on its own, over the answers of the address-search       *)
(* service                                                                 *)
(***************************************************************************)
CoordTexts ==
    {<<"3", "7", ".", "7">>,
     <<"-", "1", "2", "2", ".", "4">>,
     <<"0">>,
     <<"0", ".", "0">>,
     <<"-", "0">>,
     <<>>,
     <<"x">>,
     <<"-", ".", "5">>,
     <<"1", ".">>,
     <<"+", "9">>,
     <<".">>,
     <<"1", ".", "2", ".", "3">>,
     <<"-", "-", "1">>,
     <<"1", "2", "a">>,
     <<"+">>,
     <<"1", " ">>}

WideMatches == {[lat |-> la, lon |-> lo] : la \in CoordTexts, lo \in CoordTexts}
WideMatchLists ==
    {<<>>} \cup {<<m>> : m \in WideMatches}
        \cup {<<m, OtherMatch>> : m \in WideMatches}
WideGeocodeResponses ==
    {TransportError}
        \cup {HTTP(st, b) : st \in GeocodeStatuses,
                            b \in {Garbage, JSONNull, JSONObject(TRUE, <<>>)}
                                    \cup {JSONArray(ms) : ms \in WideMatchLists}}

GeocodeFns == {"Service.geocodeAddress", "PropertyService.geocodeAddress"}

InitGeocode ==
    /\ call \in {[fn |-> fn, arg |-> resp] :
                    fn \in GeocodeFns, resp \in WideGeocodeResponses}
    /\ ret = NotReturned
    /\ PipelineIdle

\* service.geocodeAddress is called and the service answers call.arg
GeocodeCall ==
    /\ call.fn = "Service.geocodeAddress"
    /\ ret = NotReturned
    /\ ret' = Returned(geocodeAddress(call.arg))
    /\ UNCHANGED <<call, gvars>>

\* the same call on the PropertyService of the earliest revision
LegacyGeocodeCall ==
    /\ call.fn = "PropertyService.geocodeAddress"
    /\ ret = NotReturned
    /\ ret' = Returned(PropertyService_geocodeAddress(call.arg))
    /\ UNCHANGED <<call, gvars>>

NextGeocode == GeocodeCall \/ LegacyGeocodeCall

SpecGeocode == InitGeocode /\ [][NextGeocode]_vars

(***************************************************************************)
(* Properties                                                              *)
(***************************************************************************)
Occurrences(seq, x) == Cardinality({i \in DOMAIN seq : seq[i] = x})
IsPrefix(a, b) == Len(a) <= Len(b) /\ \A i \in DOMAIN a : a[i] = b[i]

CallOrder == <<"geocode", "details", "schools">>
Stages == {"validate", "geocode", "details", "schools"}

\* the upstream calls GetInfo has issued once it is through the stage
CallsThrough(stage) ==
    CASE stage = "validate" -> <<>>
      [] stage = "geocode" -> <<"geocode">>
      [] stage = "details" -> <<"geocode", "details">>
      [] stage = "schools" -> <<"geocode", "details", "schools">>

\* the stage was run and failed: its result is nil after it returned
Failed(r, stage) ==
    CASE stage = "validate" ->
             pc[r] /= "idle" /\ ValidateAddress(address[r]) /= NoErr
      [] stage = "geocode" -> respLog[r]["geocode"] /= NoResp /\ coords[r] = Nil
      [] stage = "details" -> respLog[r]["details"] /= NoResp /\ details[r] = Nil
      [] stage = "schools" -> respLog[r]["schools"] /= NoResp /\ schools[r] = Nil

\* C1: for every address that ValidateAddress rejects, GetInfo returns an
\* error (and no Info) without issuing any upstream call: none of the three
\* collaborators is called, none is in flight, none has answered.
C1_RejectedAddressNoUpstreamCall ==
    \A r \in Reqs :
        (pc[r] /= "idle" /\ ValidateAddress(address[r]) /= NoErr) =>
            /\ pc[r] = "done"
            /\ err[r] = Wrap("validate", ValidateAddress(address[r]))
            /\ info[r] = Nil
            /\ callLog[r] = <<>>
            /\ inflight[r] = {}
            /\ \A c \in Collaborators : respLog[r][c] = NoResp

C1_Witness ==
    \E r \in Reqs :
        /\ pc[r] = "done"
        /\ address[r] = AddrSpecial
        /\ err[r].stage = "validate"
        /\ callLog[r] = <<>>

\* C2: when one of the four stages fails, GetInfo returns a nil Info with a
\* non-nil error naming that stage and has called no later stage; an Info is
\* returned only with a nil error and with all of its parts filled in.
C2_StageFailureAborts ==
    \A r \in Reqs :
        /\ pc[r] = "done" => ((info[r] = Nil) <=> (err[r] /= NoError))
        /\ pc[r] /= "done" => info[r] = Nil
        /\ info[r] /= Nil =>
               /\ info[r].Coordinates /= Nil
               /\ info[r].Details /= Nil
               /\ info[r].Schools /= Nil
        /\ \A stage \in Stages :
               Failed(r, stage) =>
                   /\ pc[r] = "done"
                   /\ info[r] = Nil
                   /\ err[r].stage = stage
                   /\ err[r].cause /= NoErr
                   /\ callLog[r] = CallsThrough(stage)

C2_Witness ==
    \E r \in Reqs :
        /\ Failed(r, "details")
        /\ pc[r] = "done"
        /\ info[r] = Nil
        /\ err[r].stage = "details"
        /\ callLog[r] = <<"geocode", "details">>

\* C3: the upstream calls of one GetInfo are issued in the order geocode,
\* details, schools; details only after geocode returned successfully,
\* schools only after details returned successfully; never two in flight.
C3_SequentialCalls ==
    \A r \in Reqs :
        /\ IsPrefix(callLog[r], CallOrder)
        /\ Cardinality(inflight[r]) <= 1
        /\ inflight[r] \subseteq Range(callLog[r])
        /\ "details" \in Range(callLog[r]) =>
               /\ respLog[r]["geocode"] /= NoResp
               /\ coords[r] /= Nil
               /\ "geocode" \notin inflight[r]
        /\ "schools" \in Range(callLog[r]) =>
               /\ respLog[r]["details"] /= NoResp
               /\ details[r] /= Nil
               /\ "details" \notin inflight[r]

C3_Witness ==
    \E r \in Reqs : callLog[r] = CallOrder /\ inflight[r] = {"schools"}

\* C4: within one GetInfo each collaborator is called at most once; after a
\* call failed (transport error or timeout) GetInfo has returned and that
\* call was the last one issued.
C4_NoRetry ==
    \A r \in Reqs :
        \A c \in Collaborators :
            /\ Occurrences(callLog[r], c) <= 1
            /\ respLog[r][c].kind = "error" =>
                   /\ pc[r] = "done"
                   /\ inflight[r] = {}
                   /\ callLog[r] = CallsThrough(c)

C4_Witness ==
    \E r \in Reqs :
        /\ respLog[r]["geocode"].kind = "error"
        /\ pc[r] = "done"
        /\ callLog[r] = <<"geocode">>

\* '<digits> <street>, <city>, <two uppercase letters>', optionally followed
\* by a space and a 5-digit zip code
IsDocumentedForm(a) ==
    LET p1 == RePlus(a, Digit, {1})
        p2 == ReOne(a, {" "}, p1)
        p3 == RePlus(a, Letter \cup Digit \cup {" ", ".", "-"}, p2)
        p4 == ReOne(a, {" "}, ReOne(a, {","}, p3))
        p5 == RePlus(a, Letter \cup {" "}, p4)
        p6 == ReOne(a, {" "}, ReOne(a, {","}, p5))
        p7 == ReExactly(a, Upper, 2, p6)
        p8 == ReExactly(a, Digit, 5, ReOne(a, {" "}, p7))
    IN  (Len(a) + 1) \in (p7 \cup p8)

\* C5: ValidateAddress returns nil for every address of the form
\* '<digits> <street>, <city>, <two uppercase letters>' optionally followed by
\* a 5-digit zip code: with the zip code and without it.
C5_DocumentedFormAccepted ==
    (call.fn = "ValidateAddress" /\ ret.returned /\ IsDocumentedForm(call.arg))
        => ret.value = NoErr

\* the street/city/state pattern as documented: digits, whitespace, street,
\* comma, city, comma, two uppercase letters, optional whitespace, optional
\* 5-digit postal code
MatchesDocumentedPattern(s) ==
    LET p1 == RePlus(s, Digit, {1})
        p2 == RePlus(s, ClassS, p1)
        p3 == RePlus(s, Letter \cup Digit \cup ClassS \cup {".", "-"}, p2)
        p4 == ReStar(s, ClassS, ReOne(s, {","}, p3))
        p5 == RePlus(s, Letter \cup ClassS, p4)
        p6 == ReStar(s, ClassS, ReOne(s, {","}, p5))
        p7 == ReStar(s, ClassS, ReExactly(s, Upper, 2, p6))
        p8 == ReExactly(s, Digit, 5, p7)
    IN  (Len(s) + 1) \in (p7 \cup p8)

WhitespaceOnly(a) == \A i \in DOMAIN a : IsSpace(a[i])
Segments(a) == Cardinality({i \in DOMAIN a : a[i] = ","}) + 1

\* C6: ValidateAddress returns an error for every address that is empty or
\* whitespace-only, or has fewer than 3 comma-separated segments, or whose
\* trimmed text does not match the street/city/state pattern.
C6_MalformedRejected ==
    (/\ call.fn = "ValidateAddress"
     /\ ret.returned
     /\ \/ WhitespaceOnly(call.arg)
        \/ Segments(call.arg) < 3
        \/ ~MatchesDocumentedPattern(TrimSpace(call.arg)))
        => ret.value /= NoErr

C6_Witness ==
    /\ call.fn = "ValidateAddress"
    /\ ret.returned
    /\ call.arg = AddrSpecial
    /\ Segments(call.arg) >= 3
    /\ ret.value = ErrFormat

\* a success status: 200 to 299
Is2xx(status) == status >= 200 /\ status < 300

\* C7: geocodeAddress returns an error whenever the address-search service
\* answers with a non-2xx status, whatever the body is.
C7_Non2xxIsError ==
    (/\ call.fn \in GeocodeFns
     /\ ret.returned
     /\ call.arg.kind = "http"
     /\ ~Is2xx(call.arg.status))
        => ret.value.err /= NoErr

\* C8: when the details request carried no API key and the structured-
\* geocoding service answered it with a non-2xx status, GetInfo returns an
\* error from the details stage and no Info, whatever the body is.
C8_MissingKeyFailsDetails ==
    \A r \in Reqs :
        (/\ respLog[r]["details"].kind = "http"
         /\ sentKey[r] = ""
         /\ ~Is2xx(respLog[r]["details"].status))
            => /\ pc[r] = "done"
               /\ err[r].stage = "details"
               /\ info[r] = Nil

\* C9: when the address-search service returns a well-formed response with
\* zero matches, geocodeAddress returns the error "address not found" and
\* GetInfo fails without calling the details or schools collaborators.
C9_ZeroMatchesNotFound ==
    \A r \in Reqs :
        (/\ respLog[r]["geocode"].kind = "http"
         /\ respLog[r]["geocode"].json = "array"
         /\ respLog[r]["geocode"].n = 0)
            => /\ coords[r] = Nil
               /\ pc[r] = "done"
               /\ err[r] = Wrap("geocode", ErrNotFound)
               /\ info[r] = Nil
               /\ callLog[r] = <<"geocode">>
               /\ inflight[r] = {}

C9_Witness ==
    \E r \in Reqs :
        /\ respLog[r]["geocode"] =
               [kind |-> "http", status |-> 200, json |-> "array", n |-> 0]
        /\ pc[r] = "done"
        /\ err[r].cause = ErrNotFound

\* the decimal notation of a floating-point number, over the characters the
\* model uses: [+-] digits [. digits], or [+-] . digits
IsFloatText(s) ==
    LET p0 == {1} \cup ReOne(s, {"+", "-"}, {1})
        whole == RePlus(s, Digit, p0)
        withFraction == ReStar(s, Digit, ReOne(s, {"."}, whole))
        bareFraction == RePlus(s, Digit, ReOne(s, {"."}, p0))
    IN  (Len(s) + 1) \in (whole \cup withFraction \cup bareFraction)

HasFirstMatch(resp) ==
    /\ resp.kind = "http"
    /\ resp.body.json = "array"
    /\ Len(resp.body.results) >= 1

\* C10: geocodeAddress returns an error, and no coordinates, whenever the
\* latitude or the longitude of the first match cannot be parsed as a
\* floating-point number; 0 is never substituted for the unparsable value.
C10_UnparsableCoordinateIsError ==
    (/\ call.fn \in GeocodeFns
     /\ ret.returned
     /\ HasFirstMatch(call.arg)
     /\ \/ ~IsFloatText(call.arg.body.results[1].lat)
        \/ ~IsFloatText(call.arg.body.results[1].lon))
        => /\ ret.value.err \in {ErrLat, ErrLon}
           /\ ret.value.coords = Nil

\* C11: whenever geocodeAddress returns without error, the returned
\* coordinates are non-zero in both components, for every response of the
\* address-search service.
C11_SuccessMeansNonZeroCoordinates ==
    (/\ call.fn = "Service.geocodeAddress"
     /\ ret.returned
     /\ ret.value.err = NoErr)
        => /\ ret.value.coords.Lat /= Zero
           /\ ret.value.coords.Lon /= Zero

(***************************************************************************)
(* getPropertyDetails on its own, over the answers of the structured-      *)
(* geocoding service                                                       *)
(***************************************************************************)
\* the building:levels texts: "", "2", "0", "-1", "+3", "x", and the decimal
\* notations of 2^62 - 1, 2^62, 2^63 - 1 and 2^63
LevelTexts ==
    {<<>>,
     <<"2">>,
     <<"0">>,
     <<"-", "1">>,
     <<"+", "3">>,
     <<"x">>,
     <<"4", "6", "1", "1", "6", "8", "6", "0", "1", "8", "4", "2", "7", "3", "8", "7", "9", "0", "3">>,
     <<"4", "6", "1", "1", "6", "8", "6", "0", "1", "8", "4", "2", "7", "3", "8", "7", "9", "0", "4">>,
     <<"9", "2", "2", "3", "3", "7", "2", "0", "3", "6", "8", "5", "4", "7", "7", "5", "8", "0", "7">>,
     <<"9", "2", "2", "3", "3", "7", "2", "0", "3", "6", "8", "5", "4", "7", "7", "5", "8", "0", "8">>}

WideComponents ==
    {Components(type, category, use, levels, apartments) :
        type \in {<<>>, <<"residential">>, <<"road">>},
        category \in {<<>>, <<"building">>},
        use \in {<<>>, <<"house">>},
        levels \in LevelTexts,
        apartments \in {<<>>, <<"yes">>}}
WideResults ==
    {Result(c, osm) : c \in WideComponents,
                      osm \in {OSM(<<>>, <<>>), OSM(<<"4">>, <<"residential">>)}}
WideResultLists ==
    {<<>>} \cup {<<x>> : x \in WideResults} \cup {<<ResultBare, ResultHouse>>}
WideDetailsResponses ==
    {TransportError}
        \cup {HTTP(st, b) :
                st \in DetailsStatuses,
                b \in {Garbage, JSONNull, JSONArray(<<>>), JSONObject(FALSE, <<>>)}
                        \cup {JSONObject(TRUE, rs) : rs \in WideResultLists}}

InitDetails ==
    /\ call \in {[fn |-> "getPropertyDetails", arg |-> resp] :
                    resp \in WideDetailsResponses}
    /\ ret = NotReturned
    /\ PipelineIdle

\* service.getPropertyDetails is called and the service answers call.arg
DetailsCall ==
    /\ call.fn = "getPropertyDetails"
    /\ ret = NotReturned
    /\ ret' = Returned(getPropertyDetails(call.arg))
    /\ UNCHANGED <<call, gvars>>

NextDetails == DetailsCall

SpecDetails == InitDetails /\ [][NextDetails]_vars

\* C12: when the structured-geocoding service returns a well-formed response
\* with zero results, getPropertyDetails succeeds and returns exactly the
\* default record (Size "Mock-Data", Rooms 3, Value 500000); when the body is
\* not well-formed JSON it returns an error.
C12_NoResultsIsDefaultRecord ==
    (call.fn = "getPropertyDetails" /\ ret.returned /\ call.arg.kind = "http") =>
        /\ (/\ call.arg.body.json = "object"
            /\ call.arg.body.typed
            /\ call.arg.body.results = <<>>)
               => /\ ret.value.err = NoErr
                  /\ ret.value.details.Size = <<"Mock-Data">>
                  /\ ret.value.details.Rooms = WordOf(3)
                  /\ ret.value.details.Value = IntNum(500000)
        /\ call.arg.body.json = "garbage"
               => /\ ret.value.err /= NoErr
                  /\ ret.value.details = Nil

C12_Witness ==
    /\ call.fn = "getPropertyDetails"
    /\ ret.returned
    /\ call.arg = HTTP(200, JSONObject(TRUE, <<>>))
    /\ ret.value.err = NoErr
    /\ ret.value.details.Size = <<"Mock-Data">>

\* C13: on every successful getPropertyDetails, Details.Rooms is strictly
\* positive and Details.Value is strictly positive (500000), for every
\* upstream response and every building-levels text that parses as an int.
C13_RoomsAndValuePositive ==
    (call.fn = "getPropertyDetails" /\ ret.returned /\ ret.value.err = NoErr) =>
        /\ IsPositive(ret.value.details.Rooms)
        /\ NumLT(Zero, ret.value.details.Value)
        /\ ret.value.details.Value = IntNum(500000)

\* C14: on success GetInfo returns an Info whose Address is exactly the input
\* string (not trimmed or normalised) and whose Coordinates are exactly the
\* pair the geocoding stage of the same invocation returned.
C14_InfoEchoesAddressAndCoordinates ==
    \A r \in Reqs :
        info[r] /= Nil =>
            /\ pc[r] = "done"
            /\ info[r].Address = address[r]
            /\ coords[r] /= Nil
            /\ info[r].Coordinates = coords[r]

C14_Witness ==
    \E r \in Reqs :
        /\ info[r] /= Nil
        /\ address[r] = AddrPadded
        /\ info[r].Address = AddrPadded
        /\ info[r].Address /= TrimSpace(address[r])
        /\ info[r].Coordinates = [Lat |-> Tenths(377), Lon |-> Tenths(-1224)]

(***************************************************************************)
(* getNearbySchools on its own, over the answers of the spatial-query      *)
(* service                                                                 *)
(***************************************************************************)
SchoolTags(name, school) == Tags(name, school, <<>>, <<>>, <<>>, <<>>, <<>>)

ElemRelation ==
    Element("relation", SchoolTags(<<"F">>, <<"c", "o", "l", "l", "e", "g", "e">>),
            Zero, Zero, Point(IntNum(-90), IntNum(180)))
ElemAntipode ==
    Element("node", SchoolTags(<<"P">>, SchoolText), Tenths(-25), IntNum(90), Nil)
ElemOutOfRange ==
    Element("node", SchoolTags(<<"E">>, SchoolText), IntNum(91), IntNum(181), Nil)
ElemLonOut ==
    Element("node", SchoolTags(<<"G">>, SchoolText), Tenths(377), IntNum(181), Nil)
ElemCenterZero ==
    Element("way", SchoolTags(<<"H">>, SchoolText),
            Tenths(377), Tenths(-1224), Point(Tenths(377), Zero))
ElemNodeWithCenter ==
    Element("node", SchoolTags(<<"K">>, SchoolText),
            Tenths(378), Tenths(-1224), Point(Tenths(377), Tenths(-1225)))
ElemWayWithLatLon ==
    Element("way", SchoolTags(<<"M">>, SchoolText),
            Tenths(378), Tenths(-1224), Point(Tenths(377), Tenths(-1225)))

WideElements ==
    {ElemNode, ElemWay, ElemNoName, ElemNoCenter, ElemZeroLat, ElemRelation,
     ElemAntipode, ElemOutOfRange, ElemLonOut, ElemCenterZero,
     ElemNodeWithCenter, ElemWayWithLatLon}

WideElementLists ==
    {<<>>} \cup {<<e>> : e \in WideElements}
        \cup {<<e1, e2>> : e1 \in WideElements, e2 \in WideElements}
        \cup {<<e1, e2, e3>> : e1 \in {ElemNode, ElemRelation},
                               e2 \in {ElemNoName, ElemWay},
                               e3 \in {ElemNode, ElemRelation, ElemNoCenter}}

WideSchoolsResponses ==
    {TransportError}
        \cup {HTTP(st, b) :
                st \in SchoolsStatuses,
                b \in {Garbage, JSONNull, JSONArray(<<>>), JSONObject(FALSE, <<>>)}
                        \cup {JSONObject(TRUE, es) : es \in WideElementLists}}

SchoolsOrigins ==
    {[Lat |-> Tenths(377), Lon |-> Tenths(-1224)],
     [Lat |-> Tenths(25), Lon |-> IntNum(-90)]}

InitSchools ==
    /\ call \in {[fn |-> "getNearbySchools", arg |-> [coords |-> c, resp |-> resp]] :
                    c \in SchoolsOrigins, resp \in WideSchoolsResponses}
    /\ ret = NotReturned
    /\ PipelineIdle

\* service.getNearbySchools(coords) is called and the service answers
SchoolsCall ==
    /\ call.fn = "getNearbySchools"
    /\ ret = NotReturned
    /\ ret' = Returned(getNearbySchools(call.arg.coords, call.arg.resp))
    /\ UNCHANGED <<call, gvars>>

NextSchools == SchoolsCall

SpecSchools == InitSchools /\ [][NextSchools]_vars

\* getNearbySchools returned, having been answered with a well-formed list of
\* elements
SchoolsAnswered ==
    /\ call.fn = "getNearbySchools"
    /\ ret.returned
    /\ call.arg.resp.kind = "http"
    /\ call.arg.resp.body.json = "object"
    /\ call.arg.resp.body.typed

UpstreamElements == call.arg.resp.body.results
ReturnedSchools == ret.value.schools.elems

\* the representative coordinate of an element: its own lat/lon for a node,
\* its center otherwise
HasRepresentative(e) == e.type = "node" \/ e.center /= Nil
Representative(e) == IF e.type = "node" THEN Point(e.lat, e.lon) ELSE e.center

\* neither component zero, latitude in [-90, 90], longitude in [-180, 180]
ValidPoint(p) ==
    /\ p.lat /= Zero /\ p.lon /= Zero
    /\ NumLE(IntNum(-90), p.lat) /\ NumLE(p.lat, IntNum(90))
    /\ NumLE(IntNum(-180), p.lon) /\ NumLE(p.lon, IntNum(180))

Qualifies(e) ==
    e.tags.Name /= <<>> /\ HasRepresentative(e) /\ ValidPoint(Representative(e))

\* C15: getNearbySchools returns a school for an upstream element if and only
\* if the element has a non-empty name and a representative coordinate that
\* passes areValidCoordinates; the other elements are skipped without error.
C15_SchoolIffNamedAndValid ==
    SchoolsAnswered =>
        /\ ret.value.err = NoErr
        /\ Len(ReturnedSchools) = Len(SelectSeq(UpstreamElements, Qualifies))
        /\ \A i \in DOMAIN UpstreamElements :
               Qualifies(UpstreamElements[i]) <=>
                   \E k \in DOMAIN ReturnedSchools :
                       ReturnedSchools[k].Name = UpstreamElements[i].tags.Name

C15_Witness ==
    /\ SchoolsAnswered
    /\ UpstreamElements = <<ElemNoCenter, ElemWay>>
    /\ ret.value.err = NoErr
    /\ Len(ReturnedSchools) = 1
    /\ ReturnedSchools[1].Name = <<"B">>

\* out is, name by name, a subsequence of the elements
RECURSIVE NamesInUpstreamOrder(_, _)
NamesInUpstreamOrder(out, elements) ==
    IF out = <<>> THEN TRUE
    ELSE IF elements = <<>> THEN FALSE
    ELSE IF Head(out).Name = Head(elements).tags.Name
         THEN NamesInUpstreamOrder(Tail(out), Tail(elements))
         ELSE NamesInUpstreamOrder(out, Tail(elements))

\* C16: the list getNearbySchools returns is a subsequence of the upstream
\* elements in upstream order, whatever the distances are.
C16_UpstreamOrderKept ==
    SchoolsAnswered => NamesInUpstreamOrder(ReturnedSchools, UpstreamElements)

\* two schools returned with the farther one first
C16_Witness ==
    /\ SchoolsAnswered
    /\ Len(ReturnedSchools) = 2
    /\ ReturnedSchools[1].Name /= ReturnedSchools[2].Name
    /\ NumLT(ReturnedSchools[2].Distance, ReturnedSchools[1].Distance)

\* C17: every School returned by getNearbySchools has a non-empty Name, a
\* non-empty Type, a Distance that is not negative and a Rating within
\* [3.0, 5.0].  (NaN, which calculateDistance yields for some antipodal pairs,
\* is not negative: no comparison with it is true.)
C17_SchoolFieldsWellFormed ==
    (call.fn = "getNearbySchools" /\ ret.returned /\ ret.value.err = NoErr) =>
        \A k \in DOMAIN ReturnedSchools :
            /\ ReturnedSchools[k].Name /= <<>>
            /\ ReturnedSchools[k].Type /= <<>>
            /\ ~NumLT(ReturnedSchools[k].Distance, Zero)
            /\ NumLE(IntNum(3), ReturnedSchools[k].Rating)
            /\ NumLE(ReturnedSchools[k].Rating, IntNum(5))

C17_Witness ==
    /\ SchoolsAnswered
    /\ Len(ReturnedSchools) = 2
    /\ ReturnedSchools[1].Type = TypeUnknown
    /\ NumLT(Zero, ReturnedSchools[1].Distance)
    /\ IsNaN(ReturnedSchools[2].Distance)

(***************************************************************************)
(* determineSchoolType on its own, over tag sets                           *)
(***************************************************************************)
SchoolValues ==
    {SchoolText, <<>>, <<"n", "o", "t", "_", "s", "c", "h", "o", "o", "l">>,
     <<"c", "o", "l", "l", "e", "g", "e">>}
TypeValues ==
    {<<>>, <<"e", "l", "e", "m", "e", "n", "t", "a", "r", "y">>,
     <<"h", "i", "g", "h", "_", "s", "c", "h", "o", "o", "l">>}
LevelValues == {<<>>, <<"s", "e", "c", "o", "n", "d", "a", "r", "y">>}
CategoryValues == {<<>>, <<"p", "u", "b", "l", "i", "c">>}
EducationValues == {<<>>, <<"m", "u", "s", "i", "c">>}
EducationTypeValues == {<<>>, <<"H", "I", "G", "H", "_", "s", "c", "h", "o", "o", "l">>}

TagSets ==
    {Tags(<<>>, school, type, level, category, education, educationType) :
        school \in SchoolValues, type \in TypeValues, level \in LevelValues,
        category \in CategoryValues, education \in EducationValues,
        educationType \in EducationTypeValues}

SchoolTypeFns == {"determineSchoolType", "main.determineSchoolType"}

InitSchoolType ==
    /\ call \in {[fn |-> fn, arg |-> tags] : fn \in SchoolTypeFns, tags \in TagSets}
    /\ ret = NotReturned
    /\ PipelineIdle

\* determineSchoolType(call.arg) of package property is called and returns
SchoolTypeCall ==
    /\ call.fn = "determineSchoolType"
    /\ ret = NotReturned
    /\ ret' = Returned(determineSchoolType(call.arg))
    /\ UNCHANGED <<call, gvars>>

\* determineSchoolType(call.arg) of the command-line program is called and returns
MainSchoolTypeCall ==
    /\ call.fn = "main.determineSchoolType"
    /\ ret = NotReturned
    /\ ret' = Returned(main_determineSchoolType(call.arg))
    /\ UNCHANGED <<call, gvars>>

NextSchoolType == SchoolTypeCall \/ MainSchoolTypeCall

SpecSchoolType == InitSchoolType /\ [][NextSchoolType]_vars

NoTypeTags(tags) ==
    /\ tags.SchoolType = <<>> /\ tags.SchoolLevel = <<>>
    /\ tags.SchoolCategory = <<>> /\ tags.Education = <<>>
    /\ tags.EducationType = <<>>

\* C18: determineSchoolType returns "Unknown" for every tag set whose school
\* tag is not "school", whatever the other type tags contain, and "General
\* School" for every tag set whose school tag is "school" and whose five type
\* tags are all empty.
C18_UnknownAndGeneralSchool ==
    (call.fn \in SchoolTypeFns /\ ret.returned) =>
        /\ call.arg.School /= <<"s", "c", "h", "o", "o", "l">>
               => ret.value = <<"U", "n", "k", "n", "o", "w", "n">>
        /\ (call.arg.School = <<"s", "c", "h", "o", "o", "l">> /\ NoTypeTags(call.arg))
               => ret.value = <<"G", "e", "n", "e", "r", "a", "l", " ", "S", "c", "h", "o", "o", "l">>

(***************************************************************************)
(* mockSchoolRating on its own, over names                                 *)
(***************************************************************************)
MaxNameLen == 3

NameAlphabet == {"A", "z", " ", "9", "_"}

RECURSIVE NamesUpTo(_)
NamesUpTo(n) ==
    IF n = 0 THEN {<<>>}
    ELSE NamesUpTo(n - 1)
             \cup {Append(nm, c) : nm \in {x \in NamesUpTo(n - 1) : Len(x) = n - 1},
                                   c \in NameAlphabet}

\* names long enough for the hash to wrap around: "Test School",
\* "Lincoln High School", "zzzzzzzzzzzzzzzz"
LongNames ==
    {<<"T", "e", "s", "t", " ", "S", "c", "h", "o", "o", "l">>,
     <<"L", "i", "n", "c", "o", "l", "n", " ", "H", "i", "g", "h", " ", "S", "c", "h", "o", "o", "l">>,
     <<"z", "z", "z", "z", "z", "z", "z", "z", "z", "z", "z", "z", "z", "z", "z", "z">>}

\* names with a character outside ASCII: "é", "école", "Café 9"
AccentedNames ==
    {<<"é">>, <<"é", "c", "o", "l", "e">>, <<"C", "a", "f", "é", " ", "9">>}

RatingNames == NamesUpTo(MaxNameLen) \cup LongNames \cup AccentedNames

InitRating ==
    /\ call \in {[fn |-> "mockSchoolRating", arg |-> nm] : nm \in RatingNames}
    /\ ret = NotReturned
    /\ PipelineIdle

\* mockSchoolRating(call.arg) is called and returns
RatingCall ==
    /\ call.fn = "mockSchoolRating"
    /\ ret = NotReturned
    /\ ret' = Returned(mockSchoolRating(call.arg))
    /\ UNCHANGED <<call, gvars>>

NextRating == RatingCall

SpecRating == InitRating /\ [][NextRating]_vars

\* C19: mockSchoolRating returns a value in the closed range [3.0, 5.0] for
\* every name, including the empty name.
C19_RatingInRange ==
    (call.fn = "mockSchoolRating" /\ ret.returned) =>
        /\ NumLE(IntNum(3), ret.value)
        /\ NumLE(ret.value, IntNum(5))

C19_Witness ==
    /\ call.fn = "mockSchoolRating"
    /\ ret.returned
    /\ call.arg = <<>>
    /\ ret.value = IntNum(3)

(***************************************************************************)
(* areValidCoordinates on its own, over points                             *)
(***************************************************************************)
\* -91, -90.1, -90, -37.7, -0.1, 0, 0.1, 37.7, 90, 90.1, 91
LatValues ==
    {IntNum(-91), Tenths(-901), IntNum(-90), Tenths(-377), Tenths(-1), Zero,
     Tenths(1), Tenths(377), IntNum(90), Tenths(901), IntNum(91)}
\* -181, -180.1, -180, -122.4, -0.1, 0, 0.1, 122.4, 180, 180.1, 181
LonValues ==
    {IntNum(-181), Tenths(-1801), IntNum(-180), Tenths(-1224), Tenths(-1), Zero,
     Tenths(1), Tenths(1224), IntNum(180), Tenths(1801), IntNum(181)}

InitCoords ==
    /\ call \in {[fn |-> "areValidCoordinates", arg |-> Point(lat, lon)] :
                    lat \in LatValues, lon \in LonValues}
    /\ ret = NotReturned
    /\ PipelineIdle

\* areValidCoordinates(lat, lon) is called and returns
CoordsCall ==
    /\ call.fn = "areValidCoordinates"
    /\ ret = NotReturned
    /\ ret' = Returned(areValidCoordinates(call.arg.lat, call.arg.lon))
    /\ UNCHANGED <<call, gvars>>

NextCoords == CoordsCall

SpecCoords == InitCoords /\ [][NextCoords]_vars

\* C20: areValidCoordinates(lat, lon) is true exactly when lat is in
\* [-90, 90], lon is in [-180, 180] and neither is zero; a point with only one
\* zero component is invalid.
C20_ValidExactlyInRangeAndNonZero ==
    (call.fn = "areValidCoordinates" /\ ret.returned) =>
        (ret.value <=>
            /\ NumLE(IntNum(-90), call.arg.lat) /\ NumLE(call.arg.lat, IntNum(90))
            /\ NumLE(IntNum(-180), call.arg.lon) /\ NumLE(call.arg.lon, IntNum(180))
            /\ call.arg.lat /= Zero
            /\ call.arg.lon /= Zero)

\* on the equator, at a valid longitude
C20_Witness ==
    /\ call.fn = "areValidCoordinates"
    /\ ret.returned
    /\ call.arg = Point(Zero, Tenths(-1224))
    /\ ret.value = FALSE

(***************************************************************************)
(* Two invocations of GetInfo on one Service at a time.  The Service has   *)
(* the one field httpClient, which GetInfo never assigns; coords, details  *)
(* and schools are locals of each invocation; the environment variable is  *)
(* the only thing the invocations read in common.  The answers drawn here  *)
(* differ in status, kind of body or number of results, which is what      *)
(* respLog records of them.                                                *)
(***************************************************************************)
ConcurrentReqs == {"r1", "r2"}

ConcurrentAddresses == {AddrValid, AddrPadded, AddrEmpty}

ConcurrentGeocodeResponses ==
    {TransportError,
     HTTP(200, JSONArray(<<>>)),
     HTTP(200, JSONArray(<<[lat |-> <<"3", "7", ".", "7">>,
                            lon |-> <<"-", "1", "2", "2", ".", "4">>]>>)),
     HTTP(200, JSONArray(<<[lat |-> <<"0">>,
                            lon |-> <<"-", "1", "2", "2", ".", "4">>],
                           OtherMatch>>))}

ConcurrentDetailsResponses ==
    {TransportError,
     HTTP(200, JSONObject(TRUE, <<>>)),
     HTTP(200, JSONObject(TRUE, <<ResultHouse>>)),
     HTTP(200, JSONObject(TRUE, <<ResultAnnotated, ResultHouse>>))}

ConcurrentSchoolsResponses ==
    {TransportError,
     HTTP(200, JSONObject(TRUE, <<>>)),
     HTTP(200, JSONObject(TRUE, <<ElemNode>>)),
     HTTP(200, JSONObject(TRUE, <<ElemWay, ElemNode>>))}

InitConcurrent ==
    /\ call = NoCall
    /\ ret = NotReturned
    /\ apiKey \in Keys
    /\ pc = [r \in ConcurrentReqs |-> "idle"]
    /\ address = [r \in ConcurrentReqs |-> <<>>]
    /\ inflight = [r \in ConcurrentReqs |-> {}]
    /\ callLog = [r \in ConcurrentReqs |-> <<>>]
    /\ sentKey = [r \in ConcurrentReqs |-> ""]
    /\ respLog = [r \in ConcurrentReqs |-> [c \in Collaborators |-> NoResp]]
    /\ coords = [r \in ConcurrentReqs |-> Nil]
    /\ details = [r \in ConcurrentReqs |-> Nil]
    /\ schools = [r \in ConcurrentReqs |-> Nil]
    /\ info = [r \in ConcurrentReqs |-> Nil]
    /\ err = [r \in ConcurrentReqs |-> NoError]

NextConcurrent ==
    \/ \E k \in Keys : Setenv(k)
    \/ \E r \in ConcurrentReqs, a \in ConcurrentAddresses : GetInfoCall(r, a)
    \/ \E r \in ConcurrentReqs, resp \in ConcurrentGeocodeResponses :
           GeocodeReturn(r, resp)
    \/ \E r \in ConcurrentReqs, resp \in ConcurrentDetailsResponses :
           DetailsReturn(r, resp)
    \/ \E r \in ConcurrentReqs, resp \in ConcurrentSchoolsResponses :
           SchoolsReturn(r, resp)

SpecConcurrent == InitConcurrent /\ [][NextConcurrent]_vars

\* everything one invocation holds
Locals(r) ==
    <<pc[r], address[r], inflight[r], callLog[r], sentKey[r], respLog[r],
      coords[r], details[r], schools[r], info[r], err[r]>>

\* what an invocation was given: its address, the key its details call read,
\* the answers to its own calls
OwnInputs(r) == <<address[r], sentKey[r], respLog[r]>>

\* every step of an invocation moves its own pc
Stepped(r) == pc'[r] /= pc[r]

SameInputsSameResult ==
    \A r \in ConcurrentReqs, q \in ConcurrentReqs :
        (pc[r] = "done" /\ pc[q] = "done" /\ OwnInputs(r) = OwnInputs(q)) =>
            (info[r] = info[q] /\ err[r] = err[q])

StepsTouchOwnLocalsOnly ==
    /\ \A r \in ConcurrentReqs :
           ~Stepped(r) =>
               /\ address'[r] = address[r]
               /\ inflight'[r] = inflight[r]
               /\ callLog'[r] = callLog[r]
               /\ sentKey'[r] = sentKey[r]
               /\ respLog'[r] = respLog[r]
               /\ coords'[r] = coords[r]
               /\ details'[r] = details[r]
               /\ schools'[r] = schools[r]
               /\ info'[r] = info[r]
               /\ err'[r] = err[r]
    /\ (\E r \in ConcurrentReqs : Stepped(r)) => apiKey' = apiKey

DistancePairs ==
    {<<Tenths(r[1]), Tenths(r[2]), Tenths(r[3]), Tenths(r[4])>> :
        r \in HaversineTable \cup HaversineSame}
        \cup {<<Tenths(r[1]), Tenths(r[2]), Tenths(r[3]), Tenths(r[4])>> :
                 r \in HaversineNaN}

InitDistance ==
    /\ call \in {[fn |-> "calculateDistance", arg |-> p] : p \in DistancePairs}
    /\ ret = NotReturned
    /\ PipelineIdle

\* calculateDistance(lat1, lon1, lat2, lon2) is called and returns
DistanceCall ==
    /\ call.fn = "calculateDistance"
    /\ ret = NotReturned
    /\ ret' = Returned(calculateDistance(call.arg[1], call.arg[2], call.arg[3],
                                         call.arg[4]))
    /\ UNCHANGED <<call, gvars>>

NextDistance == DistanceCall

SpecDistance == InitDistance /\ [][NextDistance]_vars

FragmentsInOrder(components, osm) ==
    When(components.BuildingUse /= <<>>, components.BuildingUse)
    \o When(components.Type /= <<>>, components.Type)
    \o (IF components.BuildingLevels /= <<>>
        THEN <<components.BuildingLevels \o <<" stories">> >>
        ELSE When(osm.BuildingLevels /= <<>>,
                  osm.BuildingLevels \o <<" stories">>))
    \o When(components.Apartments /= <<>>,
            <<"apartment building">>)

\* the first result of a response that getPropertyDetails decoded
DetailsAnswered ==
    /\ call.fn = "getPropertyDetails"
    /\ ret.returned
    /\ ret.value.err = NoErr
    /\ call.arg.body.json = "object"
    /\ Len(call.arg.body.results) > 0

\* C23: with at least one result, Size is the space-joined concatenation of
\* the building-use tag, the type tag, '<N> stories' and 'apartment building'
\* (each when it applies), and 'Residential Property' only when none applies,
\* whatever the type and category tags are.
C23_SizeIsFragmentsInOrder ==
    DetailsAnswered =>
        LET first == call.arg.body.results[1]
            frags == FragmentsInOrder(first.components, first.osm)
        IN  ret.value.details.Size =
                IF frags = <<>> THEN <<"Residential Property">>
                ELSE Join(frags, <<" ">>)

\* the Go int w holds the number 2 * n, n a non-negative Go int: doubling n
\* loses no bit and does not reach the sign bit
HoldsTwice(w, n) ==
    /\ MulAdd(n, 2, 0, <<>>).carry = 0
    /\ MulAdd(n, 2, 0, <<>>).limbs = w
    /\ ~IsNegative(w)

\* C24: Rooms is 2 * levels exactly when the components building-levels of
\* the first result parses as a positive integer; in every other case (no
\* results, empty, non-numeric, zero or negative text, levels only in the
\* annotation) Rooms is the default 3.
C24_RoomsTwiceLevelsOrDefault ==
    (call.fn = "getPropertyDetails" /\ ret.returned /\ ret.value.err = NoErr) =>
        IF /\ DetailsAnswered
           /\ Atoi(call.arg.body.results[1].components.BuildingLevels).ok
           /\ IsPositive(Atoi(call.arg.body.results[1].components.BuildingLevels).val)
        THEN HoldsTwice(ret.value.details.Rooms,
                        Atoi(call.arg.body.results[1].components.BuildingLevels).val)
        ELSE ret.value.details.Rooms = WordOf(3)

\* the five type tags in the order of their priority
TypeTagsByPriority(tags) ==
    <<tags.SchoolType, tags.SchoolLevel, tags.SchoolCategory, tags.Education,
      tags.EducationType>>

\* out is the title-cased, underscore-to-space form of tag: as long as tag,
\* a space for every underscore, every letter that starts a word in upper
\* case and every other letter in lower case
IsTitleForm(out, tag) ==
    /\ Len(out) = Len(tag)
    /\ \A i \in DOMAIN tag :
           IF tag[i] = "_" THEN out[i] = " "
           ELSE IF i = 1 \/ tag[i - 1] \in {"_", " "}
                THEN out[i] = ToUpper(tag[i])
                ELSE out[i] = ToLower(tag[i])

\* C25: for a tag set whose school tag is "school", determineSchoolType
\* returns the title-cased, underscore-to-space form of the first non-empty
\* tag in the order school-type, school-level, school-category, education,
\* education-type: every tag before the deciding one is empty.
C25_FirstNonEmptyTagDecides ==
    (/\ call.fn = "determineSchoolType"
     /\ ret.returned
     /\ call.arg.School = <<"s", "c", "h", "o", "o", "l">>
     /\ ~NoTypeTags(call.arg)) =>
        \E k \in 1 .. 5 :
            /\ TypeTagsByPriority(call.arg)[k] /= <<>>
            /\ \A j \in 1 .. k - 1 : TypeTagsByPriority(call.arg)[j] = <<>>
            /\ IsTitleForm(ret.value, TypeTagsByPriority(call.arg)[k])

\* school type empty, school level "secondary" and three lower tags set
C25_Witness ==
    /\ call.fn = "determineSchoolType"
    /\ ret.returned
    /\ call.arg.School = <<"s", "c", "h", "o", "o", "l">>
    /\ call.arg.SchoolType = <<>>
    /\ call.arg.SchoolLevel = <<"s", "e", "c", "o", "n", "d", "a", "r", "y">>
    /\ call.arg.SchoolCategory /= <<>>
    /\ call.arg.Education /= <<>>
    /\ call.arg.EducationType /= <<>>
    /\ ret.value = <<"S", "e", "c", "o", "n", "d", "a", "r", "y">>

\* the Unicode code point of a character
CodePoint(c) == IF c = "é" THEN 233 ELSE CharCode(c)

\* C26: mockSchoolRating(name) is 3.0 + (h mod 20) / 10, h being the result
\* of starting at 0 and setting h to (h * 31 + code point) modulo 2^32 for
\* each character of the name in order; a function of the name alone.
C26_RatingIsCodePointHash ==
    (call.fn = "mockSchoolRating" /\ ret.returned) =>
        LET h == nameHash([i \in DOMAIN call.arg |-> CodePoint(call.arg[i])],
                          [hi |-> 0, lo |-> 0])
        IN  ret.value = Normalize([m |-> 30 + HashMod(h, 20), e |-> 1])

\* C27: the coordinate a school's distance is measured to is chosen by the
\* type of its element only: the direct lat/lon for a node, whatever its
\* center; the center for every other type, and an element of another type
\* without a center yields no school even when it carries lat/lon values.
C27_RepresentativeChosenByType ==
    SchoolsAnswered =>
        \A i \in DOMAIN UpstreamElements :
            \A k \in DOMAIN ReturnedSchools :
                ReturnedSchools[k].Name = UpstreamElements[i].tags.Name =>
                    IF UpstreamElements[i].type = "node"
                    THEN ReturnedSchools[k].Distance =
                             calculateDistance(call.arg.coords.Lat,
                                               call.arg.coords.Lon,
                                               UpstreamElements[i].lat,
                                               UpstreamElements[i].lon)
                    ELSE /\ UpstreamElements[i].center /= Nil
                         /\ ReturnedSchools[k].Distance =
                                calculateDistance(call.arg.coords.Lat,
                                                  call.arg.coords.Lon,
                                                  UpstreamElements[i].center.lat,
                                                  UpstreamElements[i].center.lon)

\* a node with a center 8.80 km away is measured to its lat/lon, 11.12 km
\* away; a way with lat/lon 11.12 km away is measured to its center
C27_Witness ==
    /\ SchoolsAnswered
    /\ call.arg.coords = [Lat |-> Tenths(377), Lon |-> Tenths(-1224)]
    /\ UpstreamElements = <<ElemNodeWithCenter, ElemWayWithLatLon>>
    /\ Len(ReturnedSchools) = 2
    /\ ReturnedSchools[1].Distance = Normalize([m |-> 1112, e |-> 2])
    /\ ReturnedSchools[2].Distance = Normalize([m |-> 880, e |-> 2])

\* the number of commas of an address
Commas(a) == Cardinality({i \in DOMAIN a : a[i] = ","})

\* C28: every address ValidateAddress accepts has exactly two commas (three
\* comma-separated segments); an address with four or more segments gets
\* past the segment-count check and is rejected by the pattern; and the
\* segment-count check rejects no address whose trimmed text matches the
\* pattern.
C28_AcceptedHasTwoCommas ==
    (call.fn = "ValidateAddress" /\ ret.returned) =>
        /\ ret.value = NoErr => Commas(call.arg) = 2
        /\ Commas(call.arg) >= 3 => ret.value = ErrFormat
        /\ ret.value = ErrParts => ~MatchesDocumentedPattern(TrimSpace(call.arg))

\* "12 Elm, Reno, NV 12345, US": four segments, rejected by the pattern
C28_Witness ==
    /\ call.fn = "ValidateAddress"
    /\ ret.returned
    /\ call.arg = <<"1", "2", " ", "E", "l", "m", ",", " ", "R", "e", "n", "o", ",",
                    " ", "N", "V", " ", "1", "2", "3", "4", "5", ",", " ", "U", "S">>
    /\ Commas(call.arg) = 3
    /\ ret.value = ErrFormat

\* C29: the rating mockSchoolRating returns is one of the twenty values 3.0,
\* 3.1, ..., 4.9: never above 4.9, so never 5.0; the empty name gives 3.0.
C29_RatingOneOfTwentyValues ==
    (call.fn = "mockSchoolRating" /\ ret.returned) =>
        /\ \E k \in 0 .. 19 : ret.value = Tenths(30 + k)
        /\ NumLE(ret.value, Tenths(49))
        /\ ret.value /= IntNum(5)
        /\ call.arg = <<>> => ret.value = IntNum(3)

\* "9 " hashes to 1799: the highest rating, 4.9
C29_Witness ==
    /\ call.fn = "mockSchoolRating"
    /\ ret.returned
    /\ call.arg = <<"9", " ">>
    /\ ret.value = Tenths(49)

(***************************************************************************)
(* GetInfo under the assumption that every upstream call returns: the      *)
(* http.Client of NewService has a Timeout, so that Do and Post return a    *)
(* response or an error.                                                   *)
(***************************************************************************)
UpstreamReturns ==
    \A r \in Reqs :
        /\ WF_vars(\E resp \in GeocodeResponses : GeocodeReturn(r, resp))
        /\ WF_vars(\E resp \in PipeDetailsResponses : DetailsReturn(r, resp))
        /\ WF_vars(\E resp \in PipeSchoolsResponses : SchoolsReturn(r, resp))

SpecTerminates == Init /\ [][Next]_vars /\ UpstreamReturns

\* an invocation under way waits for exactly the one upstream call of its
\* stage, has issued at most three calls, and once it has returned holds
\* either an Info or an error
BoundedAndWaitingOnUpstreamOnly ==
    \A r \in Reqs :
        /\ Len(callLog[r]) <= 3
        /\ pc[r] \in {"idle", "done"} => inflight[r] = {}
        /\ pc[r] \notin {"idle", "done"} =>
               (pc[r] \in Collaborators /\ inflight[r] = {pc[r]})
        /\ pc[r] = "done" => ((info[r] /= Nil) <=> (err[r] = NoError))

\* C30: every invocation of GetInfo returns, with an Info or an error, after
\* at most three upstream calls, provided each upstream call returns; it
\* waits for nothing but the upstream call of its stage.
C30_GetInfoTerminates ==
    /\ []BoundedAndWaitingOnUpstreamOnly
    /\ \A r \in Reqs : (pc[r] \in Collaborators) ~> (pc[r] = "done")

\* returned an Info after the three calls
C30_Witness ==
    \E r \in Reqs :
        /\ pc[r] = "done"
        /\ callLog[r] = <<"geocode", "details", "schools">>
        /\ info[r] /= Nil
        /\ err[r] = NoError

====
